---- MODULE Spec2Model ----
(***************************************************************************)
(* A model of source/base/hdf5.cc: the File, Group and DataSet wrappers    *)
(* around native HDF5 handles, the shared_ptr cells that own the handles,  *)
(* and the write operations of DataSet.                                    *)
(*                                                                         *)
(* The native library is modelled by the operators named after its calls   *)
(* (H5Fcreate, H5Gopen2, H5Dwrite, ...): each takes the library state and  *)
(* returns the value the call returns together with the new library state. *)
(***************************************************************************)
EXTENDS Integers, Sequences, FiniteSets, TLC

VARIABLES
  hid,     \* the library's identifier table: hid[v] describes hid_t value v
  disk,    \* the content of the one file on disk
  objs,    \* the wrapper objects ever constructed, in order of construction
  cells,   \* the control blocks of the std::shared_ptr<hid_t> members
  calls,   \* the native calls made by the operation that ran last, in order
  op,      \* the operation that ran last: its name, its object, its arguments
  fatal,   \* TRUE once an assertion has terminated the process
  scoped,  \* TRUE while every destruction so far destroyed the newest live wrapper
  proc,    \* multi-process runs: what each process is doing in its round
  pend,    \* multi-process runs: the write each blocked process has issued
  value,   \* what the attribute read that ran last returned
  types    \* the control blocks of the t_type members of the DataSets

vars ==
  <<hid, disk, objs, cells, calls, op, fatal, scoped, proc, pend, value, types>>

-----------------------------------------------------------------------------
(* Bounds of the model *)

MaxObjs == 3        \* wrappers constructed in one run
MaxRounds == 2      \* rounds of a multi-process run
NProcs == 2         \* processes of a multi-process run
MaxBlock == 8       \* cells of a hyperslab that are told apart; buffers are shorter

(* Values of the native library *)

Invalid == -1       \* a negative hid_t: the call failed
H5P_DEFAULT == 0
H5S_ALL == 0

(* The identifiers of the objects that live only inside one operation: the
   property lists and the memory dataspace.  The library draws them from
   ranges of their own, apart from the identifiers the wrappers keep. *)
AccessList == 101     \* hid_t plist of File::File
TransferList == 102   \* hid_t plist of the write operations
MemorySpace == 103    \* hid_t memory_dataspace of the write operations

GroupNames == {"g"}
DataSetNames == {"d"}
Names == GroupNames \cup DataSetNames

-----------------------------------------------------------------------------
(* Sequences *)

RECURSIVE Product(_)
Product(s) == IF s = <<>> THEN 1 ELSE Head(s) * Product(Tail(s))

Range(s) == {s[i] : i \in DOMAIN s}

SeqOf(S, n) == UNION {[1..k -> S] : k \in 0..n}

(* The row-major position (from 1) of the cell with 0-based coordinate c in
   an array of extents dims. *)
RECURSIVE Linear(_, _)
Linear(c, dims) ==
  IF c = <<>> THEN 1
  ELSE Head(c) * Product(Tail(dims)) + Linear(Tail(c), Tail(dims))

-----------------------------------------------------------------------------
(* The native library *)

(* An identifier: its kind, whether it is open, the object in the file it
   refers to, the identifier it was created or opened under (0: none) and
   the file identifier at the root of that chain, and, for a dataspace or a
   dataset, the extents and the selection. *)
NoHandle == [kind |-> "none", open |-> FALSE, path |-> <<>>, parent |-> 0,
             root |-> 0, dims |-> <<>>, sel |-> <<>>, type |-> <<>>]

Entry(kind, path, parent, root) ==
  [kind |-> kind, open |-> TRUE, path |-> path, parent |-> parent,
   root |-> root, dims |-> <<>>, sel |-> <<>>, type |-> <<>>]

Root(H, loc) == IF H[loc].kind = "file" THEN loc ELSE H[loc].root

IsOpen(H, v) == v \in 1..Len(H) /\ H[v].open

IsKind(H, v, kind) == IsOpen(H, v) /\ H[v].kind = kind

IsLoc(H, v) == IsKind(H, v, "file") \/ IsKind(H, v, "group")

NoFile == [exists |-> FALSE, groups |-> {}, dsets |-> [p \in {} |-> 0],
           attrs |-> [p \in {} |-> 0]]

EmptyFile == [exists |-> TRUE, groups |-> {}, dsets |-> [p \in {} |-> 0],
              attrs |-> [p \in {} |-> 0]]

Linked(D, path) == path \in D.groups \/ path \in DOMAIN D.dsets

Fail(H, D) == [ret |-> Invalid, hid |-> H, disk |-> D]

(* H5Fcreate with H5F_ACC_TRUNC: a new, empty file replaces the one on disk;
   the call fails while the file is open in this process. *)
H5Fcreate(H, D) ==
  IF \E v \in 1..Len(H) : H[v].open /\ H[v].kind \in {"file", "group", "dataset"}
  THEN Fail(H, D)
  ELSE [ret |-> Len(H) + 1, hid |-> Append(H, Entry("file", <<>>, 0, 0)),
        disk |-> EmptyFile]

(* H5Fopen with H5F_ACC_RDWR: the file must exist. *)
H5Fopen(H, D) ==
  IF ~D.exists THEN Fail(H, D)
  ELSE [ret |-> Len(H) + 1, hid |-> Append(H, Entry("file", <<>>, 0, 0)),
        disk |-> D]

H5Gcreate2(H, D, loc, name) ==
  IF ~IsLoc(H, loc) \/ Linked(D, Append(H[loc].path, name)) THEN Fail(H, D)
  ELSE LET path == Append(H[loc].path, name)
       IN  [ret |-> Len(H) + 1, hid |-> Append(H, Entry("group", path, loc, Root(H, loc))),
            disk |-> [D EXCEPT !.groups = @ \cup {path}]]

(* H5Gopen2 as it would be if it created the group it does not find. *)
H5Gopen2OrCreate(H, D, loc, name) ==
  IF IsLoc(H, loc) /\ Append(H[loc].path, name) \in D.groups
  THEN [ret |-> Len(H) + 1,
        hid |-> Append(H, Entry("group", Append(H[loc].path, name), loc,
                              Root(H, loc))),
        disk |-> D]
  ELSE H5Gcreate2(H, D, loc, name)

H5Gopen2(H, D, loc, name) ==
  IF ~IsLoc(H, loc) \/ Append(H[loc].path, name) \notin D.groups THEN Fail(H, D)
  ELSE [ret |-> Len(H) + 1,
        hid |-> Append(H, Entry("group", Append(H[loc].path, name), loc,
                              Root(H, loc))),
        disk |-> D]

(* H5Screate_simple: a dataspace of the given extents with everything
   selected.  The selection is the sequence of selected positions. *)
AllOf(dims) == [i \in 1..Product(dims) |-> i]

H5Screate_simple(H, D, dims) ==
  [ret |-> Len(H) + 1,
   hid |-> Append(H, [Entry("dataspace", <<>>, 0, 0) EXCEPT
                        !.dims = dims, !.sel = AllOf(dims)]),
   disk |-> D]

(* H5Dcreate2: a new dataset of the dataspace's extents, filled with 0. *)
H5Dcreate2(H, D, loc, name, space) ==
  IF \/ ~IsLoc(H, loc)
     \/ ~IsKind(H, space, "dataspace")
     \/ Linked(D, Append(H[loc].path, name))
  THEN Fail(H, D)
  ELSE LET path == Append(H[loc].path, name)
           new  == [dims |-> H[space].dims,
                    val  |-> [i \in 1..Product(H[space].dims) |-> 0]]
       IN  [ret |-> Len(H) + 1,
            hid |-> Append(H, [Entry("dataset", path, loc, Root(H, loc)) EXCEPT
                                 !.dims = H[space].dims]),
            disk |-> [D EXCEPT !.dsets =
                        [p \in DOMAIN @ \cup {path} |->
                           IF p = path THEN new ELSE @[p]]]]

(* The close calls: each closes an open identifier of its own kind and
   fails, changing nothing, on any other value. *)
CloseKind(fn) ==
  CASE fn = "H5Fclose" -> "file"
    [] fn = "H5Gclose" -> "group"
    [] fn = "H5Dclose" -> "dataset"
    [] fn = "H5Sclose" -> "dataspace"
    [] fn = "H5Tclose" -> "datatype"
    [] fn = "H5Aclose" -> "attribute"
    [] OTHER -> "none"

H5close(H, fn, v) ==
  IF IsKind(H, v, CloseKind(fn))
  THEN [ret |-> 0, hid |-> [H EXCEPT ![v] = [NoHandle EXCEPT !.kind = H[v].kind]]]
  ELSE [ret |-> Invalid, hid |-> H]


(* The selection calls on a dataspace: each replaces the selection of an open
   dataspace and fails, changing nothing, on any other value.  A selected
   cell outside the extent is recorded as position 0, which no write accepts. *)
Position(c, dims) ==
  IF Len(c) = Len(dims) /\ \A i \in DOMAIN c : c[i] \in 0..(dims[i] - 1)
  THEN Linear(c, dims) ELSE 0

Chunk(flat, i, rank) == [a \in 1..rank |-> flat[(i - 1) * rank + a]]

H5Sselect_elements(H, space, num, coordinates) ==
  IF \/ ~IsKind(H, space, "dataspace")
     \/ num = 0
     \/ Len(coordinates) # num * Len(H[space].dims)
  THEN [ret |-> Invalid, hid |-> H]
  ELSE [ret |-> 0,
        hid |-> [H EXCEPT ![space].sel =
                   [i \in 1..num |->
                      Position(Chunk(coordinates, i, Len(H[space].dims)),
                               H[space].dims)]]]

(* The cells of the block starting at offset with extent count, row-major. *)
RECURSIVE Block(_, _)
Block(offset, count) ==
  IF offset = <<>> THEN <<<<>>>>
  ELSE LET rest == Block(Tail(offset), Tail(count))
           row(k) == [j \in 1..Len(rest) |-> <<Head(offset) + k>> \o rest[j]]
           RECURSIVE Rows(_)
           Rows(k) == IF k = Head(count) THEN <<>> ELSE row(k) \o Rows(k + 1)
       IN  Rows(0)

(* The block of offset and count lies in a dataspace of extents dims. *)
Inside(offset, count, dims) ==
  /\ Len(offset) = Len(dims)
  /\ Len(count) = Len(dims)
  /\ \A a \in DOMAIN dims : offset[a] + count[a] <= dims[a]

(* The number of cells of a block, or MaxBlock + 1 when it has more. *)
RECURSIVE Extent(_)
Extent(count) ==
  IF count = <<>> THEN 1
  ELSE LET rest == Extent(Tail(count))
       IN  IF Head(count) = 0 \/ rest = 0 THEN 0
           ELSE IF rest > MaxBlock \div Head(count) THEN MaxBlock + 1
           ELSE Head(count) * rest

(* H5Sselect_hyperslab(space, H5S_SELECT_SET, offset, NULL, count, NULL).  A
   block that leaves the extent is selected all the same; its cells are kept
   as cells outside the dataset, which H5Dwrite refuses. *)
H5Sselect_hyperslab(H, space, offset, count) ==
  IF \/ ~IsKind(H, space, "dataspace")
     \/ Len(offset) # Len(H[space].dims)
     \/ Len(count) # Len(H[space].dims)
  THEN [ret |-> Invalid, hid |-> H]
  ELSE IF Inside(offset, count, H[space].dims)
  THEN LET cs == Block(offset, count)
       IN  [ret |-> 0,
            hid |-> [H EXCEPT ![space].sel =
                       [i \in 1..Len(cs) |-> Position(cs[i], H[space].dims)]]]
  ELSE [ret |-> 0,
        hid |-> [H EXCEPT ![space].sel = [i \in 1..Extent(count) |-> 0]]]

H5Sselect_none(H, space) ==
  IF ~IsKind(H, space, "dataspace")
  THEN [ret |-> Invalid, hid |-> H]
  ELSE [ret |-> 0, hid |-> [H EXCEPT ![space].sel = <<>>]]

(* H5Dwrite(dset, type, mem_space, file_space, plist, buf).  memN is the
   number of elements of the memory dataspace, or H5S_ALL.  The call fails,
   writing nothing, unless dset is an open dataset, the file selection lies
   in the dataset and the two selections have the same number of elements.
   Otherwise the i-th element of buf goes to the i-th selected cell. *)
FileSelection(H, D, dset, fspace) ==
  IF fspace = H5S_ALL THEN AllOf(H[dset].dims)
  ELSE IF IsKind(H, fspace, "dataspace") /\ H[fspace].dims = H[dset].dims
       THEN H[fspace].sel
       ELSE <<0>>

Written(val, fsel, buf) ==
  [i \in DOMAIN val |->
     IF \E j \in DOMAIN fsel : fsel[j] = i
     THEN buf[CHOOSE j \in DOMAIN fsel :
                /\ fsel[j] = i
                /\ \A k \in DOMAIN fsel : fsel[k] = i => k <= j]
     ELSE val[i]]

H5Dwrite(H, D, dset, memN, fspace, buf) ==
  IF ~IsKind(H, dset, "dataset") \/ H[dset].path \notin DOMAIN D.dsets
  THEN [ret |-> Invalid, disk |-> D]
  ELSE LET fsel == FileSelection(H, D, dset, fspace)
           n    == IF memN = H5S_ALL THEN Len(fsel) ELSE memN
       IN  IF \/ n # Len(fsel)
              \/ \E j \in DOMAIN fsel : fsel[j] \notin DOMAIN D.dsets[H[dset].path].val
              \/ Len(buf) < n
           THEN [ret |-> Invalid, disk |-> D]
           ELSE [ret |-> 0,
                 disk |-> [D EXCEPT !.dsets[H[dset].path].val =
                             Written(@, fsel, buf)]]

(* The predefined native types and the compound types.  A type is known to
   the library by the native types of its members, in the order of their
   offsets: one member for a native type, two for a complex type. *)
H5T_NATIVE_FLOAT == 201
H5T_NATIVE_DOUBLE == 202
H5T_NATIVE_LDOUBLE == 203
H5T_NATIVE_INT == 204
H5T_NATIVE_UINT == 205

Predefined ==
  {H5T_NATIVE_FLOAT, H5T_NATIVE_DOUBLE, H5T_NATIVE_LDOUBLE, H5T_NATIVE_INT,
   H5T_NATIVE_UINT}

TypeOf(H, t) ==
  CASE t = H5T_NATIVE_FLOAT -> <<"float">>
    [] t = H5T_NATIVE_DOUBLE -> <<"double">>
    [] t = H5T_NATIVE_LDOUBLE -> <<"long double">>
    [] t = H5T_NATIVE_INT -> <<"int">>
    [] t = H5T_NATIVE_UINT -> <<"unsigned int">>
    [] OTHER -> IF IsKind(H, t, "datatype") THEN H[t].type ELSE <<>>

(* H5Tcreate(H5T_COMPOUND, size): a compound type without members. *)
H5Tcreate(H) ==
  [ret |-> Len(H) + 1, hid |-> Append(H, Entry("datatype", <<>>, 0, 0))]

(* H5Tinsert(t, name, offset, member): the members are inserted in the order
   of their offsets. *)
H5Tinsert(H, t, member) ==
  IF IsKind(H, t, "datatype") /\ member \in Predefined
  THEN [ret |-> 0, hid |-> [H EXCEPT ![t].type = @ \o TypeOf(H, member)]]
  ELSE [ret |-> Invalid, hid |-> H]

(* The conversion of one element between two native types.  The elements of
   the model are whole numbers that every native type but unsigned int
   holds; a negative number converted to unsigned int becomes 0. *)
Cast(from, to, x) == IF to = "unsigned int" /\ x < 0 THEN 0 ELSE x

Convertible(from, to) ==
  /\ from # <<>>
  /\ Len(from) = Len(to)
  /\ \A i \in DOMAIN from : (from[i] = "string") <=> (to[i] = "string")

Converted(from, to, v) == [i \in DOMAIN to |-> Cast(from[i], to[i], v[i])]

(* H5Screate(H5S_SCALAR): a dataspace of one element and no extents. *)
H5Screate(H) ==
  [ret |-> Len(H) + 1,
   hid |-> Append(H, [Entry("dataspace", <<>>, 0, 0) EXCEPT !.sel = <<1>>])]

IsObject(H, v) == IsLoc(H, v) \/ IsKind(H, v, "dataset")

(* An attribute is kept under the path of its object followed by its name. *)
H5Acreate2(H, D, loc, attr_name, type, space) ==
  IF \/ ~IsObject(H, loc)
     \/ TypeOf(H, type) = <<>>
     \/ ~IsKind(H, space, "dataspace")
     \/ Append(H[loc].path, attr_name) \in DOMAIN D.attrs
  THEN Fail(H, D)
  ELSE LET path == Append(H[loc].path, attr_name)
           new  == [type |-> TypeOf(H, type),
                    val  |-> [i \in DOMAIN TypeOf(H, type) |-> 0],
                    dims |-> H[space].dims]
       IN  [ret |-> Len(H) + 1,
            hid |-> Append(H, Entry("attribute", path, loc, Root(H, loc))),
            disk |-> [D EXCEPT !.attrs =
                        [p \in DOMAIN @ \cup {path} |->
                           IF p = path THEN new ELSE @[p]]]]

H5Aopen(H, D, loc, attr_name) ==
  IF ~IsObject(H, loc) \/ Append(H[loc].path, attr_name) \notin DOMAIN D.attrs
  THEN Fail(H, D)
  ELSE [ret |-> Len(H) + 1,
        hid |-> Append(H, Entry("attribute", Append(H[loc].path, attr_name),
                              loc, Root(H, loc))),
        disk |-> D]

(* H5Awrite(attr, mem_type, buf) converts buf from the memory type to the
   type the attribute was created with. *)
H5Awrite(H, D, attr, type, buf) ==
  IF \/ ~IsKind(H, attr, "attribute")
     \/ H[attr].path \notin DOMAIN D.attrs
     \/ ~Convertible(TypeOf(H, type), D.attrs[H[attr].path].type)
  THEN [ret |-> Invalid, disk |-> D]
  ELSE [ret |-> 0,
        disk |-> [D EXCEPT !.attrs[H[attr].path].val =
                    Converted(TypeOf(H, type), D.attrs[H[attr].path].type, buf)]]

(* The first element of an attribute: the value of a scalar attribute, the
   element at the origin of an array. *)
First(a) == IF a.dims = <<>> THEN a.val ELSE a.val[1]

(* H5Aread(attr, mem_type, buf) converts the stored value to the memory
   type; when it fails buf is left as it was.  buf is one element: of an
   array it receives the first element, the others landing in memory that
   the model does not hold. *)
H5Aread(H, D, attr, type, buf) ==
  IF \/ ~IsKind(H, attr, "attribute")
     \/ H[attr].path \notin DOMAIN D.attrs
     \/ ~Convertible(D.attrs[H[attr].path].type, TypeOf(H, type))
  THEN [ret |-> Invalid, buf |-> buf]
  ELSE [ret |-> 0,
        buf |-> Converted(D.attrs[H[attr].path].type, TypeOf(H, type),
                          First(D.attrs[H[attr].path]))]

(* H5Tcopy(H5T_C_S1): a new string type.  H5Tset_cset and H5Tset_size make
   it a UTF-8 string of variable length; they fail on anything but an open
   type. *)
H5T_C_S1 == 206

H5Tcopy(H, t) ==
  IF t = H5T_C_S1
  THEN [ret |-> Len(H) + 1,
        hid |-> Append(H, [Entry("datatype", <<>>, 0, 0) EXCEPT
                             !.type = <<"string">>])]
  ELSE [ret |-> Invalid, hid |-> H]

H5Tset(H, t) == IF IsKind(H, t, "datatype") THEN 0 ELSE Invalid

(* H5Aget_space(attr): a new identifier for a copy of the dataspace of the
   attribute. *)
H5Aget_space(H, D, attr) ==
  IF ~IsKind(H, attr, "attribute") \/ H[attr].path \notin DOMAIN D.attrs
  THEN [ret |-> Invalid, hid |-> H]
  ELSE [ret |-> Len(H) + 1,
        hid |-> Append(H, [Entry("dataspace", <<>>, 0, 0) EXCEPT
                             !.dims = D.attrs[H[attr].path].dims,
                             !.sel = AllOf(D.attrs[H[attr].path].dims)])]

H5Sget_simple_extent_ndims(H, space) ==
  IF IsKind(H, space, "dataspace") THEN Len(H[space].dims) ELSE Invalid

H5Sget_simple_extent_dims(H, space) == H[space].dims

(* H5Aread of an attribute that is an array: every element is converted to
   the memory type and the first member of each goes to buf in row-major
   order; when the call fails buf is left as it was. *)
H5AreadArray(H, D, attr, type, buf) ==
  IF \/ ~IsKind(H, attr, "attribute")
     \/ H[attr].path \notin DOMAIN D.attrs
     \/ ~Convertible(D.attrs[H[attr].path].type, TypeOf(H, type))
  THEN [ret |-> Invalid, buf |-> buf]
  ELSE [ret |-> 0,
        buf |-> [i \in DOMAIN D.attrs[H[attr].path].val |->
                   Converted(D.attrs[H[attr].path].type, TypeOf(H, type),
                             D.attrs[H[attr].path].val[i])[1]]]

(* One native call as the handlers record it. *)
Call(fn, h, ret) ==
  [fn |-> fn, h |-> h, mem |-> 0, file |-> 0, plist |-> 0, mode |-> "",
   ret |-> ret]

-----------------------------------------------------------------------------
(* std::shared_ptr<hid_t>: a cell holds the hid_t, the deleter bound when the
   pointer was made, the number of owners, and the native call whose result
   was stored in it ("none" while the hid_t is uninitialised). *)

NewCell(del, v, prod) == [val |-> v, del |-> del, cnt |-> 1, prod |-> prod]

(* What an uninitialised hid_t may hold: any value at all.  The library
   treats alike every value that is not an open dataspace (the only use of
   the value is as a dataspace), so one of them stands for all. *)
Garbage(H) == {Invalid} \cup {v \in 1..Len(H) : IsKind(H, v, "dataspace")}

(* The cell of a pointer that was deleted, and a wrapper that was destroyed. *)
Deleted == [val |-> Invalid, del |-> "", cnt |-> 0, prod |-> ""]

(* Release as it would be if every owner, not the last one, ran the deleter. *)
ReleaseByEveryOwner(C, H, c) ==
  LET r == H5close(H, C[c].del, C[c].val)
  IN  [cells |-> [C EXCEPT ![c].cnt = @ - 1], hid |-> r.hid,
       calls |-> <<Call(C[c].del, C[c].val, r.ret)>>]

(* One owner lets go of cell c; the last one runs the deleter, which makes
   a native call when the pointer was made with one. *)
Release(C, H, c) ==
  IF C[c].cnt = 1 /\ C[c].del = ""
  THEN [cells |-> [C EXCEPT ![c] = Deleted], hid |-> H, calls |-> <<>>]
  ELSE IF C[c].cnt = 1
  THEN LET r == H5close(H, C[c].del, C[c].val)
       IN  [cells |-> [C EXCEPT ![c] = Deleted], hid |-> r.hid,
            calls |-> <<Call(C[c].del, C[c].val, r.ret)>>]
  ELSE [cells |-> [C EXCEPT ![c].cnt = @ - 1], hid |-> H, calls |-> <<>>]

RECURSIVE ReleaseAll(_, _, _)
ReleaseAll(C, H, cs) ==
  IF cs = <<>> THEN [cells |-> C, hid |-> H, calls |-> <<>>]
  ELSE LET r == Release(C, H, Head(cs))
           s == ReleaseAll(r.cells, r.hid, Tail(cs))
       IN  [cells |-> s.cells, hid |-> s.hid, calls |-> r.calls \o s.calls]

Share(C, cs) == [c \in DOMAIN C |-> IF c \in Range(cs)
                                    THEN [C[c] EXCEPT !.cnt = @ + 1] ELSE C[c]]

-----------------------------------------------------------------------------
(* The type descriptors *)

Native == {"float", "double", "long double", "int", "unsigned int"}

Complex == {"std::complex<float>", "std::complex<double>",
            "std::complex<long double>"}

NativeOf(T) ==
  CASE T \in {"float", "std::complex<float>"} -> H5T_NATIVE_FLOAT
    [] T \in {"double", "std::complex<double>"} -> H5T_NATIVE_DOUBLE
    [] T \in {"long double", "std::complex<long double>"} -> H5T_NATIVE_LDOUBLE
    [] T = "int" -> H5T_NATIVE_INT
    [] T = "unsigned int" -> H5T_NATIVE_UINT

(* The resolver as it would be if every descriptor carried the close. *)
get_hdf5_datatype_closing(H, T) ==
  IF T \in Native
  THEN [ok |-> TRUE, hid |-> H,
        t_type |-> NewCell("H5Tclose", NativeOf(T), "predefined"),
        calls |-> <<>>]
  ELSE IF T \in Complex
  THEN LET c == H5Tcreate(H)
           r == H5Tinsert(c.hid, c.ret, NativeOf(T))
           i == H5Tinsert(r.hid, c.ret, NativeOf(T))
       IN  [ok |-> TRUE, hid |-> i.hid,
            t_type |-> NewCell("H5Tclose", c.ret, "H5Tcreate"),
            calls |-> <<Call("H5Tcreate", 0, c.ret),
                        Call("H5Tinsert", c.ret, r.ret),
                        Call("H5Tinsert", c.ret, i.ret)>>]
  ELSE [ok |-> FALSE, hid |-> H, t_type |-> Deleted, calls |-> <<>>]

(* internal::get_hdf5_datatype<T>(): the shared_ptr it returns, the calls it
   makes, and ok, which is FALSE when it ends in Assert(false). *)
get_hdf5_datatype(H, T) ==
  IF T \in Native
  THEN [ok |-> TRUE, hid |-> H,
        t_type |-> NewCell("", NativeOf(T), "predefined"),
        calls |-> <<>>]
  ELSE IF T \in Complex
  THEN LET c == H5Tcreate(H)
           r == H5Tinsert(c.hid, c.ret, NativeOf(T))
           i == H5Tinsert(r.hid, c.ret, NativeOf(T))
       IN  [ok |-> TRUE, hid |-> i.hid,
            t_type |-> NewCell("H5Tclose", c.ret, "H5Tcreate"),
            calls |-> <<Call("H5Tcreate", 0, c.ret),
                        Call("H5Tinsert", c.ret, r.ret),
                        Call("H5Tinsert", c.ret, i.ret)>>]
  ELSE [ok |-> FALSE, hid |-> H, t_type |-> Deleted, calls |-> <<>>]

(* A call of internal::get_hdf5_datatype<T>() on its own: the shared_ptr it
   returns is dropped when the statement ends. *)
Resolve(T) ==
  /\ ~fatal
  /\ op' = [name |-> "get_hdf5_datatype", o |-> 0,
            rq |-> [op |-> "", T |-> T, attr_name |-> "", value |-> <<>>]]
  /\ LET t == get_hdf5_datatype(hid, T)
         d == Release(<<t.t_type>>, t.hid, 1)
     IN  IF ~t.ok
         THEN /\ fatal' = TRUE
              /\ calls' = <<>>
              /\ hid' = hid
         ELSE /\ fatal' = FALSE
              /\ calls' = t.calls \o d.calls
              /\ hid' = IF \A v \in (Len(hid) + 1)..Len(d.hid) : ~d.hid[v].open
                        THEN hid ELSE d.hid
  /\ UNCHANGED <<disk, objs, cells, scoped, proc, pend, value, types>>

-----------------------------------------------------------------------------
(* The wrappers *)

Modes == {"create", "open"}

(* The arguments of a write operation: op names it, data is the buffer
   (row-major for a FullMatrix of m rows and n columns), x the coordinates
   or the offset, count the count. *)
Request(name, form, data, m, n, x, count) ==
  [op |-> name, form |-> form, data |-> data, m |-> m, n |-> n, x |-> x,
   count |-> count]

NoRequest == Request("", "vector", <<>>, 0, 0, <<>>, <<>>)

Ran(name, o, rq) == [name |-> name, o |-> o, rq |-> rq]

Live(o) == o \in DOMAIN objs /\ objs[o].alive

IsGroup(o) == Live(o) /\ objs[o].cls \in {"File", "Group"}

IsDataSet(o) == Live(o) /\ objs[o].cls = "DataSet"

Ref(o) == cells[objs[o].ref].val

Space(o) == cells[objs[o].space].val

CanConstruct == ~fatal /\ Len(objs) < MaxObjs

HDF5Object(cls, name, mpi, ref, mode) ==
  [cls |-> cls, alive |-> TRUE, name |-> name, mpi |-> mpi, ref |-> ref,
   space |-> 0, rank |-> 0, dimensions |-> <<>>, total_size |-> 0,
   mode |-> mode, T |-> "", t_type |-> 0]

Destroyed == [HDF5Object("", "", FALSE, 0, "") EXCEPT !.alive = FALSE]

TypeOK ==
  /\ fatal \in BOOLEAN
  /\ scoped \in BOOLEAN
  /\ \A o \in DOMAIN objs : objs[o].alive => objs[o].ref \in DOMAIN cells

(* The file-access property list as it would be if File::File kept it. *)
FileAccessKept(mpi) ==
  IF mpi
  THEN [plist |-> AccessList,
        pre   |-> <<Call("H5Pcreate", 0, AccessList),
                    Call("H5Pset_fapl_mpio", AccessList, 0)>>,
        post  |-> <<>>]
  ELSE [plist |-> H5P_DEFAULT, pre |-> <<>>, post |-> <<>>]

(* File::File(name, mpi, mpi_communicator, mode) *)
FileAccess(mpi) ==
  IF mpi
  THEN [plist |-> AccessList,
        pre   |-> <<Call("H5Pcreate", 0, AccessList),
                    Call("H5Pset_fapl_mpio", AccessList, 0)>>,
        post  |-> <<Call("H5Pclose", AccessList, 0)>>]
  ELSE [plist |-> H5P_DEFAULT, pre |-> <<>>, post |-> <<>>]

File(mpi, mode) ==
  /\ CanConstruct
  /\ LET fa == FileAccess(mpi)
         r  == IF mode = "create" THEN H5Fcreate(hid, disk) ELSE H5Fopen(hid, disk)
         fn == IF mode = "create" THEN "H5Fcreate" ELSE "H5Fopen"
     IN  /\ hid' = r.hid
         /\ disk' = r.disk
         /\ cells' = Append(cells, NewCell("H5Fclose", r.ret, fn))
         /\ objs' = Append(objs, HDF5Object("File", "f", mpi, Len(cells) + 1, mode))
         /\ calls' = fa.pre \o <<[Call(fn, 0, r.ret) EXCEPT !.plist = fa.plist]>>
                       \o fa.post
         /\ op' = Ran("File", Len(objs) + 1, NoRequest)
  /\ UNCHANGED <<fatal, scoped, proc, pend, value, types>>


(* Group::Group(name, parentGroup, mpi, mode) *)
Group(p, name, mode) ==
  /\ CanConstruct
  /\ IsGroup(p)
  /\ LET r  == IF mode = "create" THEN H5Gcreate2(hid, disk, Ref(p), name)
               ELSE H5Gopen2(hid, disk, Ref(p), name)
         fn == IF mode = "create" THEN "H5Gcreate2" ELSE "H5Gopen2"
     IN  /\ hid' = r.hid
         /\ disk' = r.disk
         /\ cells' = Append(cells, NewCell("H5Gclose", r.ret, fn))
         /\ objs' = Append(objs, HDF5Object("Group", name, objs[p].mpi,
                                            Len(cells) + 1, mode))
         /\ calls' = <<Call(fn, Ref(p), r.ret)>>
         /\ op' = Ran("Group", Len(objs) + 1, NoRequest)
  /\ UNCHANGED <<fatal, scoped, proc, pend, value, types>>

(* Group::group(name) *)
group(p, name) == Group(p, name, "open")

(* Group::create_group(name) *)
create_group(p, name) == Group(p, name, "create")

(* DataSet<T>::DataSet(name, parent_group_id, dimensions, mpi, mode).  The
   member t_type is initialised first.  Both hid_t are allocated
   uninitialised; g is what the dataspace's hid_t holds when the constructor
   does not assign it. *)
DataSetHandles(H, D, name, parent_group_id, dimensions, mode, g) ==
  IF mode = "create"
  THEN LET s == H5Screate_simple(H, D, dimensions)
           d == H5Dcreate2(s.hid, s.disk, parent_group_id, name, s.ret)
       IN  [hid |-> d.hid, disk |-> d.disk,
            ref |-> NewCell("H5Dclose", d.ret, "H5Dcreate2"),
            space |-> NewCell("H5Sclose", s.ret, "H5Screate_simple"),
            calls |-> <<Call("H5Screate_simple", 0, s.ret),
                        [Call("H5Dcreate2", parent_group_id, d.ret)
                           EXCEPT !.file = s.ret]>>]
  ELSE LET d == H5Gopen2(H, D, parent_group_id, name)
       IN  [hid |-> d.hid, disk |-> d.disk,
            ref |-> NewCell("H5Dclose", d.ret, "H5Gopen2"),
            space |-> NewCell("H5Sclose", g, "none"),
            calls |-> <<Call("H5Gopen2", parent_group_id, d.ret)>>]

DataSet(T, name, parent_group_id, dimensions, mpi, mode, g) ==
  /\ CanConstruct
  /\ op' = Ran("DataSet", Len(objs) + 1, NoRequest)
  /\ LET t == get_hdf5_datatype(hid, T)
         r == DataSetHandles(t.hid, disk, name, parent_group_id, dimensions,
                             mode, g)
     IN  IF ~t.ok
         THEN /\ fatal' = TRUE
              /\ calls' = <<>>
              /\ UNCHANGED <<hid, disk, cells, objs, types>>
         ELSE /\ fatal' = FALSE
              /\ hid' = r.hid
              /\ disk' = r.disk
              /\ cells' = cells \o <<r.ref, r.space>>
              /\ types' = Append(types, t.t_type)
              /\ objs' = Append(objs,
                   [HDF5Object("DataSet", name, mpi, Len(cells) + 1, mode) EXCEPT
                      !.space = Len(cells) + 2,
                      !.rank = Len(dimensions),
                      !.dimensions = dimensions,
                      !.total_size = Product(dimensions),
                      !.T = T,
                      !.t_type = Len(types) + 1])
              /\ calls' = t.calls \o r.calls
  /\ UNCHANGED <<scoped, proc, pend, value>>

(* create_dataset as it would be if it constructed every DataSet without
   mpi. *)
create_dataset_independent(p, T, name, dimensions) ==
  /\ IsGroup(p)
  /\ DataSet(T, name, Ref(p), dimensions, FALSE, "create", Invalid)

(* Group::create_dataset<T>(name, dimensions) *)
create_dataset(p, T, name, dimensions) ==
  /\ IsGroup(p)
  /\ DataSet(T, name, Ref(p), dimensions, objs[p].mpi, "create", Invalid)

(* A DataSet constructed in Mode::open under the group or file p *)
open_dataset(p, T, name, dimensions) ==
  /\ IsGroup(p)
  /\ \E g \in Garbage(hid) :
       DataSet(T, name, Ref(p), dimensions, objs[p].mpi, "open", g)

(* The copy constructor of a wrapper: the shared_ptr members are shared. *)
Owned(o) ==
  IF objs[o].cls = "DataSet" THEN <<objs[o].ref, objs[o].space>>
  ELSE <<objs[o].ref>>

Copy(o) ==
  /\ CanConstruct
  /\ Live(o)
  /\ objs' = Append(objs, objs[o])
  /\ cells' = Share(cells, Owned(o))
  /\ types' = Share(types, <<objs[o].t_type>>)
  /\ calls' = <<>>
  /\ op' = Ran("Copy", Len(objs) + 1, NoRequest)
  /\ UNCHANGED <<hid, disk, fatal, scoped, proc, pend, value>>

(* DataSet<T>::~DataSet resets hdf5_reference, then dataspace; a Group or a
   File has the one member. *)
ResetsDataspaceFirst(o) ==
  IF objs[o].cls = "DataSet" THEN <<objs[o].space, objs[o].ref>>
  ELSE <<objs[o].ref>>

Resets(o) ==
  IF objs[o].cls = "DataSet" THEN <<objs[o].ref, objs[o].space>>
  ELSE <<objs[o].ref>>

Newest(o) == \A q \in DOMAIN objs : objs[q].alive => q <= o

(* The destructor of a wrapper: the body of ~DataSet, then the destruction
   of the members, of which t_type is the one left holding something. *)
Destroy(o) ==
  /\ ~fatal
  /\ Live(o)
  /\ LET r == ReleaseAll(cells, hid, Resets(o))
         t == IF objs[o].cls = "DataSet"
              THEN Release(types, r.hid, objs[o].t_type)
              ELSE [cells |-> types, hid |-> r.hid, calls |-> <<>>]
     IN  /\ cells' = r.cells
         /\ types' = t.cells
         /\ hid' = t.hid
         /\ calls' = r.calls \o t.calls
  /\ objs' = [objs EXCEPT ![o] = Destroyed]
  /\ op' = Ran("Destroy", o, NoRequest)
  /\ scoped' = (scoped /\ Newest(o))
  /\ UNCHANGED <<disk, fatal, proc, pend, value>>


-----------------------------------------------------------------------------
(* The write operations of DataSet<T> *)

(* The size of a FullMatrix as it would be if only its rows counted. *)
SizeByRows(rq) == IF rq.form = "matrix" THEN rq.m ELSE Len(rq.data)

Size(rq) == IF rq.form = "matrix" THEN rq.m * rq.n ELSE Len(rq.data)

(* A 32-bit value as four digits of base 256, lowest first.  For a negative
   int the digits are those of its two's complement, which is what the
   conversion to unsigned int yields. *)
Radix == 256

Digits(v) ==
  [i \in 1..4 |->
     CASE i = 1 -> v % Radix
       [] i = 2 -> (v \div Radix) % Radix
       [] i = 3 -> (v \div (Radix * Radix)) % Radix
       [] OTHER -> (v \div (Radix * Radix * Radix)) % Radix]

Column(a, b, k) ==
  LET RECURSIVE Sum(_)
      Sum(i) == IF i = 0 THEN 0 ELSE a[i] * b[k + 1 - i] + Sum(i - 1)
  IN  Sum(k)

RECURSIVE Carry(_, _, _)
Carry(a, b, k) ==
  IF k = 1 THEN 0 ELSE (Column(a, b, k - 1) + Carry(a, b, k - 1)) \div Radix

(* std::multiplies<unsigned int>: the product modulo 2^32 *)
multiplies(a, b) ==
  [k \in 1..4 |-> (Column(a, b, k) + Carry(a, b, k)) % Radix]

(* The unsigned int result stored back into the int accumulator. *)
AsInt(d) ==
  (IF d[4] >= 128 THEN d[4] - Radix ELSE d[4]) * (Radix * Radix * Radix)
    + d[3] * (Radix * Radix) + d[2] * Radix + d[1]

(* std::accumulate(first, last, init, op) with an int init: each step is
   init = op(init, *first), both operands converted to unsigned int. *)
RECURSIVE accumulateFrom(_, _)
accumulateFrom(init, count) ==
  IF count = <<>> THEN init
  ELSE accumulateFrom(AsInt(multiplies(Digits(init), Digits(Head(count)))),
                      Tail(count))

(* std::accumulate(count.begin(), count.end(), 1, std::multiplies<unsigned int>()) *)
accumulate(count) == accumulateFrom(1, count)

(* AssertDimension(dim1, dim2) lets the caller go on when the two agree. *)
AssertDimension(dim1, dim2) == dim1 = dim2

CheckedByRows(o, rq) ==
  CASE rq.op = "write_data" ->
         AssertDimension(objs[o].total_size,
                         IF rq.form = "matrix" THEN rq.m ELSE Size(rq))
    [] rq.op = "write_data_selection" ->
         AssertDimension(Len(rq.x), Len(rq.data) * objs[o].rank)
    [] rq.op = "write_data_hyperslab" ->
         AssertDimension(accumulate(rq.count), Size(rq))
    [] OTHER -> TRUE

(* The check each write operation makes first. *)
Checked(o, rq) ==
  CASE rq.op = "write_data" ->
         AssertDimension(objs[o].total_size, Size(rq))
    [] rq.op = "write_data_selection" ->
         AssertDimension(Len(rq.x), Len(rq.data) * objs[o].rank)
    [] rq.op = "write_data_hyperslab" ->
         AssertDimension(accumulate(rq.count), Size(rq))
    [] OTHER -> TRUE

(* The memory dataspace: none for write_data, which passes H5S_ALL. *)
MemoryDims(rq) ==
  CASE rq.op = "write_data" -> <<>>
    [] rq.op = "write_data_none" -> <<0>>
    [] rq.form = "matrix" -> <<rq.m, rq.n>>
    [] OTHER -> <<Len(rq.data)>>

(* The selection made on the DataSet's own dataspace. *)
Select(H, space, rq) ==
  CASE rq.op = "write_data_selection" ->
         LET r == H5Sselect_elements(H, space, Len(rq.data), rq.x)
         IN  [hid |-> r.hid, calls |-> <<Call("H5Sselect_elements", space, r.ret)>>]
    [] rq.op = "write_data_hyperslab" ->
         LET r == H5Sselect_hyperslab(H, space, rq.x, rq.count)
         IN  [hid |-> r.hid, calls |-> <<Call("H5Sselect_hyperslab", space, r.ret)>>]
    [] rq.op = "write_data_none" ->
         LET r == H5Sselect_none(H, space)
         IN  [hid |-> r.hid, calls |-> <<Call("H5Sselect_none", space, r.ret)>>]
    [] OTHER -> [hid |-> H, calls |-> <<>>]

TransferNeverClosed(mpi) ==
  IF mpi
  THEN [plist |-> TransferList,
        pre   |-> <<Call("H5Pcreate", 0, TransferList),
                    [Call("H5Pset_dxpl_mpio", TransferList, 0) EXCEPT
                       !.mode = "H5FD_MPIO_COLLECTIVE"]>>,
        post  |-> <<>>]
  ELSE [plist |-> H5P_DEFAULT, pre |-> <<>>, post |-> <<>>]

TransferIndependent(mpi) ==
  IF mpi
  THEN [plist |-> TransferList,
        pre   |-> <<Call("H5Pcreate", 0, TransferList),
                    [Call("H5Pset_dxpl_mpio", TransferList, 0) EXCEPT
                       !.mode = "H5FD_MPIO_INDEPENDENT"]>>,
        post  |-> <<Call("H5Pclose", TransferList, 0)>>]
  ELSE [plist |-> H5P_DEFAULT, pre |-> <<>>, post |-> <<>>]

(* The transfer property list: created and set collective when mpi. *)
Transfer(mpi) ==
  IF mpi
  THEN [plist |-> TransferList,
        pre   |-> <<Call("H5Pcreate", 0, TransferList),
                    [Call("H5Pset_dxpl_mpio", TransferList, 0) EXCEPT
                       !.mode = "H5FD_MPIO_COLLECTIVE"]>>,
        post  |-> <<Call("H5Pclose", TransferList, 0)>>]
  ELSE [plist |-> H5P_DEFAULT, pre |-> <<>>, post |-> <<>>]

(* A write operation up to its H5Dwrite: the calls made before it, the
   arguments of the H5Dwrite, and the calls that follow its return. *)
Issue(o, rq) ==
  LET full  == rq.op = "write_data"
      mem   == IF full THEN H5S_ALL ELSE MemorySpace
      sel   == Select(hid, Space(o), rq)
      xfer  == Transfer(objs[o].mpi)
  IN  [hid   |-> sel.hid,
       pre   |-> (IF full THEN <<>> ELSE <<Call("H5Screate_simple", 0, mem)>>)
                   \o sel.calls \o xfer.pre,
       dset  |-> Ref(o),
       mem   |-> mem,
       memN  |-> IF full THEN H5S_ALL ELSE Product(MemoryDims(rq)),
       file  |-> IF full THEN H5S_ALL ELSE Space(o),
       plist |-> xfer.plist,
       buf   |-> rq.data,
       post  |-> xfer.post
                   \o (IF full THEN <<>> ELSE <<Call("H5Sclose", mem, 0)>>)]

(* Every write operation reaches its H5Dwrite, the empty one included. *)
ReachesWriteUnlessEmpty(rq) == rq.op # "write_data_none"

ReachesWrite(rq) == TRUE

WriteCall(w, ret) ==
  [Call("H5Dwrite", w.dset, ret) EXCEPT
     !.mem = w.mem, !.file = w.file, !.plist = w.plist]

(* A write operation of a DataSet in a single process. *)
Write(o, rq) ==
  /\ ~fatal
  /\ IsDataSet(o)
  /\ op' = Ran("Write", o, rq)
  /\ IF ~Checked(o, rq)
     THEN /\ fatal' = TRUE
          /\ calls' = <<>>
          /\ UNCHANGED <<hid, disk>>
     ELSE LET w == Issue(o, rq)
              r == IF ReachesWrite(rq)
                   THEN H5Dwrite(w.hid, disk, w.dset, w.memN, w.file, w.buf)
                   ELSE [ret |-> 0, disk |-> disk]
          IN  /\ hid' = w.hid
              /\ disk' = r.disk
              /\ calls' = w.pre
                            \o (IF ReachesWrite(rq) THEN <<WriteCall(w, r.ret)>>
                                ELSE <<>>)
                            \o w.post
              /\ fatal' = FALSE
  /\ UNCHANGED <<objs, cells, scoped, proc, pend, value, types>>


-----------------------------------------------------------------------------
(* The attributes of HDF5Object *)

(* The arguments of an attribute operation. *)
AttrRequest(name, T, attr_name, v) ==
  [op |-> name, T |-> T, attr_name |-> attr_name, value |-> v]

(* The identifiers an operation made and closed before it returned are held
   by nothing; the table forgets them. *)
Forget(H, n) ==
  IF \A v \in (n + 1)..Len(H) : ~H[v].open THEN SubSeq(H, 1, n) ELSE H

(* HDF5Object::write_attr<T>(attr_name, value) *)
write_attr(o, T, attr_name, v) ==
  /\ ~fatal
  /\ Live(o)
  /\ op' = Ran("write_attr", o, AttrRequest("write_attr", T, attr_name, v))
  /\ LET t == get_hdf5_datatype(hid, T)
     IN  IF ~t.ok
         THEN /\ fatal' = TRUE
              /\ calls' = <<>>
              /\ UNCHANGED <<hid, disk>>
         ELSE LET s == H5Screate(t.hid)
                  a == H5Acreate2(s.hid, disk, Ref(o), attr_name, t.t_type.val,
                                  s.ret)
                  w == H5Awrite(a.hid, a.disk, a.ret, t.t_type.val, v)
                  c == H5close(a.hid, "H5Sclose", s.ret)
                  e == H5close(c.hid, "H5Aclose", a.ret)
                  d == Release(<<t.t_type>>, e.hid, 1)
              IN  /\ disk' = w.disk
                  /\ hid' = Forget(d.hid, Len(hid))
                  /\ calls' = t.calls
                       \o <<Call("H5Screate", 0, s.ret),
                            [Call("H5Acreate2", Ref(o), a.ret) EXCEPT
                               !.mem = t.t_type.val, !.file = s.ret],
                            [Call("H5Awrite", a.ret, w.ret) EXCEPT
                               !.mem = t.t_type.val],
                            Call("H5Sclose", s.ret, c.ret),
                            Call("H5Aclose", a.ret, e.ret)>>
                       \o d.calls
                  /\ fatal' = FALSE
  /\ UNCHANGED <<objs, cells, scoped, proc, pend, value, types>>

(* HDF5Object::attr<T>(attr_name).  T value is not initialised: held is what
   it holds before H5Aread. *)
attr(o, T, attr_name, held) ==
  /\ ~fatal
  /\ Live(o)
  /\ op' = Ran("attr", o, AttrRequest("attr", T, attr_name, <<>>))
  /\ LET t == get_hdf5_datatype(hid, T)
     IN  IF ~t.ok
         THEN /\ fatal' = TRUE
              /\ calls' = <<>>
              /\ UNCHANGED <<hid, value>>
         ELSE LET a == H5Aopen(t.hid, disk, Ref(o), attr_name)
                  r == H5Aread(a.hid, disk, a.ret, t.t_type.val, held)
                  e == H5close(a.hid, "H5Aclose", a.ret)
                  d == Release(<<t.t_type>>, e.hid, 1)
              IN  /\ value' = r.buf
                  /\ hid' = Forget(d.hid, Len(hid))
                  /\ calls' = t.calls
                       \o <<Call("H5Aopen", Ref(o), a.ret),
                            [Call("H5Aread", a.ret, r.ret) EXCEPT
                               !.mem = t.t_type.val],
                            Call("H5Aclose", a.ret, e.ret)>>
                       \o d.calls
                  /\ fatal' = FALSE
  /\ UNCHANGED <<disk, objs, cells, scoped, proc, pend, types>>

(* HDF5Object::attr<bool>(attr_name).  int int_value is not initialised:
   held is what it holds before H5Aread.  The result is (bool)int_value. *)
attr_bool(o, attr_name, held) ==
  /\ ~fatal
  /\ Live(o)
  /\ op' = Ran("attr", o, AttrRequest("attr", "bool", attr_name, <<>>))
  /\ LET a == H5Aopen(hid, disk, Ref(o), attr_name)
         r == H5Aread(a.hid, disk, a.ret, H5T_NATIVE_INT, <<held>>)
         e == H5close(a.hid, "H5Aclose", a.ret)
     IN  /\ value' = <<IF r.buf[1] # 0 THEN 1 ELSE 0>>
         /\ hid' = Forget(e.hid, Len(hid))
         /\ calls' = <<Call("H5Aopen", Ref(o), a.ret),
                       [Call("H5Aread", a.ret, r.ret) EXCEPT
                          !.mem = H5T_NATIVE_INT],
                       Call("H5Aclose", a.ret, e.ret)>>
         /\ fatal' = FALSE
  /\ UNCHANGED <<disk, objs, cells, scoped, proc, pend, types>>

(* The std::string made from a C string: the characters before the first 0. *)
RECURSIVE CString(_)
CString(bytes) ==
  IF bytes = <<>> \/ Head(bytes) = 0 THEN <<>>
  ELSE <<Head(bytes)>> \o CString(Tail(bytes))

(* The two closes that end attr<std::string>. *)
CloseTextAttributeOnly(H, type, id) ==
  LET e == H5close(H, "H5Aclose", id)
  IN  [hid |-> e.hid, calls |-> <<Call("H5Aclose", id, e.ret)>>]

CloseText(H, type, id) ==
  LET c == H5close(H, "H5Tclose", type)
      e == H5close(c.hid, "H5Aclose", id)
  IN  [hid |-> e.hid,
       calls |-> <<Call("H5Tclose", type, c.ret),
                   Call("H5Aclose", id, e.ret)>>]

(* HDF5Object::attr<std::string>(attr_name): every native result is
   asserted, and a failed assertion ends the process with what was opened
   still open. *)
attr_string(o, attr_name) ==
  /\ ~fatal
  /\ Live(o)
  /\ op' = Ran("attr", o, AttrRequest("attr", "std::string", attr_name, <<>>))
  /\ LET ty   == H5Tcopy(hid, H5T_C_S1)
         a    == H5Aopen(ty.hid, disk, Ref(o), attr_name)
         r    == H5Aread(a.hid, disk, a.ret, ty.ret, <<>>)
         c    == CloseText(a.hid, ty.ret, a.ret)
         made == <<Call("H5Tcopy", H5T_C_S1, ty.ret),
                   Call("H5Tset_cset", ty.ret, H5Tset(ty.hid, ty.ret)),
                   Call("H5Tset_size", ty.ret, H5Tset(ty.hid, ty.ret)),
                   Call("H5Aopen", Ref(o), a.ret)>>
         read == <<[Call("H5Aread", a.ret, r.ret) EXCEPT !.mem = ty.ret]>>
     IN  IF ty.ret < 0 \/ H5Tset(ty.hid, ty.ret) < 0 \/ a.ret < 0
         THEN /\ fatal' = TRUE
              /\ hid' = a.hid
              /\ calls' = made
              /\ UNCHANGED value
         ELSE IF r.ret < 0
         THEN /\ fatal' = TRUE
              /\ hid' = a.hid
              /\ calls' = made \o read
              /\ UNCHANGED value
         ELSE /\ fatal' = FALSE
              /\ hid' = Forget(c.hid, Len(hid))
              /\ calls' = made \o read \o c.calls
              /\ value' = <<CString(r.buf[1])>>
  /\ UNCHANGED <<disk, objs, cells, scoped, proc, pend, types>>

(* HDF5Object::attr<FullMatrix<double>>(attr_name).  The buffer of malloc is
   not initialised: every element of it holds held before H5Aread, whose
   result is not tested. *)
attr_matrix(o, attr_name, held) ==
  /\ ~fatal
  /\ Live(o)
  /\ op' = Ran("attr", o,
               AttrRequest("attr", "FullMatrix<double>", attr_name, <<>>))
  /\ LET a          == H5Aopen(hid, disk, Ref(o), attr_name)
         attr_space == H5Aget_space(a.hid, disk, a.ret)
         ndims      == H5Sget_simple_extent_ndims(attr_space.hid, attr_space.ret)
         dims       == H5Sget_simple_extent_dims(attr_space.hid, attr_space.ret)
         hdf5_data  == [i \in 1..(dims[1] * dims[2]) |-> held]
         r          == H5AreadArray(attr_space.hid, disk, a.ret,
                                    H5T_NATIVE_DOUBLE, hdf5_data)
         c          == H5close(attr_space.hid, "H5Sclose", attr_space.ret)
         e          == H5close(c.hid, "H5Aclose", a.ret)
         made       == <<Call("H5Aopen", Ref(o), a.ret),
                         Call("H5Aget_space", a.ret, attr_space.ret)>>
     IN  IF ~AssertDimension(ndims, 2)
         THEN /\ fatal' = TRUE
              /\ hid' = attr_space.hid
              /\ calls' = made
              /\ UNCHANGED value
         ELSE /\ fatal' = FALSE
              /\ hid' = Forget(e.hid, Len(hid))
              /\ calls' = made
                   \o <<[Call("H5Aread", a.ret, r.ret) EXCEPT
                           !.mem = H5T_NATIVE_DOUBLE],
                        Call("H5Sclose", attr_space.ret, c.ret),
                        Call("H5Aclose", a.ret, e.ret)>>
              /\ value' = [i \in 1..(dims[1] * dims[2]) |->
                             r.buf[((i - 1) \div dims[2]) * dims[2]
                                     + ((i - 1) % dims[2]) + 1]]
  /\ UNCHANGED <<disk, objs, cells, scoped, proc, pend, types>>

(* Group::write_dataset(name, data): the DataSet is a local of the function,
   constructed by create_dataset, written by write_data and destroyed when
   the function returns. *)
write_dataset(p, T, name, rq) ==
  /\ ~fatal
  /\ IsGroup(p)
  /\ op' = Ran("write_dataset", p, [rq EXCEPT !.x = <<name, T>>])
  /\ LET dimensions == IF rq.form = "matrix" THEN <<rq.m, rq.n>>
                       ELSE <<Len(rq.data)>>
         t          == get_hdf5_datatype(hid, T)
         dataset    == DataSetHandles(t.hid, disk, name, Ref(p), dimensions,
                                      "create", Invalid)
         total_size == Product(dimensions)
         xfer       == Transfer(objs[p].mpi)
         w          == H5Dwrite(dataset.hid, dataset.disk, dataset.ref.val,
                                H5S_ALL, H5S_ALL, rq.data)
         r          == ReleaseAll(<<dataset.ref, dataset.space, t.t_type>>,
                                  dataset.hid, <<1, 2, 3>>)
     IN  IF ~t.ok
         THEN /\ fatal' = TRUE
              /\ calls' = <<>>
              /\ UNCHANGED <<hid, disk>>
         ELSE IF ~AssertDimension(total_size, Size(rq))
         THEN /\ fatal' = TRUE
              /\ hid' = dataset.hid
              /\ disk' = dataset.disk
              /\ calls' = t.calls \o dataset.calls
         ELSE /\ fatal' = FALSE
              /\ hid' = Forget(r.hid, Len(hid))
              /\ disk' = w.disk
              /\ calls' = t.calls \o dataset.calls \o xfer.pre
                            \o <<[Call("H5Dwrite", dataset.ref.val, w.ret) EXCEPT
                                    !.mem = H5S_ALL, !.file = H5S_ALL,
                                    !.plist = xfer.plist]>>
                            \o xfer.post \o r.calls
  /\ UNCHANGED <<objs, cells, scoped, proc, pend, value, types>>

-----------------------------------------------------------------------------
(* The life of the wrappers in one process: construction, copy, destruction
   in any order, and writes to the DataSets that live. *)

Iota(n, base) == [i \in 1..n |-> base + i]

LifeDims == {<<2>>}

LifeRequests == {Request("write_data_none", "vector", <<>>, 0, 0, <<>>, <<>>)}

LifeMpi == {FALSE}

LifeTypes == {"double"}

Init ==
  /\ hid = <<>>
  /\ disk = NoFile
  /\ objs = <<>>
  /\ cells = <<>>
  /\ calls = <<>>
  /\ op = Ran("", 0, NoRequest)
  /\ fatal = FALSE
  /\ scoped = TRUE
  /\ proc = <<>>
  /\ pend = <<>>
  /\ value = <<>>
  /\ types = <<>>

Next ==
  \/ \E mpi \in LifeMpi, mode \in Modes : File(mpi, mode)
  \/ \E p \in DOMAIN objs, name \in GroupNames : group(p, name)
  \/ \E p \in DOMAIN objs, name \in GroupNames : create_group(p, name)
  \/ \E p \in DOMAIN objs, T \in LifeTypes, name \in DataSetNames,
        dims \in LifeDims :
       create_dataset(p, T, name, dims)
  \/ \E p \in DOMAIN objs, T \in LifeTypes, name \in Names, dims \in LifeDims :
       open_dataset(p, T, name, dims)
  \/ \E o \in DOMAIN objs : Copy(o)
  \/ \E o \in DOMAIN objs : Destroy(o)
  \/ \E o \in DOMAIN objs, rq \in LifeRequests : Write(o, rq)

Spec == Init /\ [][Next]_vars


-----------------------------------------------------------------------------
(* The writes of one process: a File is created, DataSets are constructed
   under it and written to by every write operation, with buffers, coordinate
   lists, offsets and counts that fit the DataSet and that do not. *)

WriteDims == {<<2>>, <<1, 2>>, <<2, 1>>}

Cells(dims) == {c \in [1..Len(dims) -> 0..1] : Position(c, dims) # 0}

RECURSIVE Flat(_)
Flat(cs) == IF cs = <<>> THEN <<>> ELSE Head(cs) \o Flat(Tail(cs))

CoordinateLists(dims) == {Flat(cs) : cs \in SeqOf(Cells(dims), 2)}

Matrices == {Request("", "matrix", Iota(m * 2, 0), m, 2, <<>>, <<>>) :
               m \in 1..2}

Vectors(lens) == {Request("", "vector", Iota(k, 0), 0, 0, <<>>, <<>>) :
                    k \in lens}

WriteRequests(dims) ==
  LET axes == 1..Len(dims)
  IN  {[b EXCEPT !.op = "write_data"] :
         b \in Vectors({1, 2, 4}) \cup Matrices}
      \cup {[b EXCEPT !.op = "write_data_selection", !.x = x] :
              b \in Vectors({0, 1, 2}), x \in CoordinateLists(dims)}
      \cup {[b EXCEPT !.op = "write_data_hyperslab", !.x = x, !.count = c] :
              b \in Vectors({1, 2}) \cup Matrices,
              x \in [axes -> 0..1], c \in [axes -> 1..2]}
      \cup {Request("write_data_none", "vector", <<>>, 0, 0, <<>>, <<>>)}

WriteNext ==
  \/ \E mpi \in BOOLEAN : objs = <<>> /\ File(mpi, "create")
  \/ \E dims \in WriteDims : Len(objs) = 1 /\ create_dataset(1, "double", "d", dims)
  \/ \E dims \in WriteDims : Len(objs) = 1 /\ open_dataset(1, "double", "d", dims)
  \/ \E o \in DOMAIN objs :
       \E rq \in WriteRequests(objs[o].dimensions) : Write(o, rq)

WriteSpec == Init /\ [][WriteNext]_vars

(* The write operations of a DataSet constructed with Mode::open on a
   dataset that create_dataset has put in the file. *)
ReopenDims == <<2>>

ReopenRequests == {rq \in WriteRequests(ReopenDims) : rq.form = "vector"}

ReopenNext ==
  \/ objs = <<>> /\ File(FALSE, "create")
  \/ Len(objs) = 1 /\ create_dataset(1, "double", "d", ReopenDims)
  \/ Len(objs) = 2 /\ open_dataset(1, "double", "d", ReopenDims)
  \/ \E o \in DOMAIN objs : \E rq \in ReopenRequests : Write(o, rq)

ReopenSpec == Init /\ [][ReopenNext]_vars

(* The hyperslab writes of a DataSet of two rows and two columns. *)
SlabDims == <<2, 2>>

(* A count whose product is 2^32. *)
WideCount == <<65536, 65536>>

SlabRequests ==
  {rq \in WriteRequests(SlabDims) : rq.op = "write_data_hyperslab"}
    \cup {[b EXCEPT !.op = "write_data_hyperslab", !.x = <<0, 0>>,
                    !.count = WideCount] : b \in Vectors({0, 1})}

SlabNext ==
  \/ objs = <<>> /\ File(FALSE, "create")
  \/ Len(objs) = 1 /\ create_dataset(1, "double", "d", SlabDims)
  \/ \E rq \in SlabRequests : Write(2, rq)

SlabSpec == Init /\ [][SlabNext]_vars

(* The attributes of a File and of a Group under it: values of several types
   are written under one name and read back. *)
AttrNames == {"a"}

AttrTypes == {"int", "unsigned int", "std::complex<float>"}

AttrValues(T) ==
  IF T \in Complex THEN {<<1, 2>>, <<2, 1>>}
  ELSE IF T = "int" THEN {<<-1>>, <<1>>}
  ELSE {<<0>>, <<1>>}

AttrNext ==
  \/ \E mode \in Modes : objs = <<>> /\ File(FALSE, mode)
  \/ Len(objs) = 1 /\ create_group(1, "g")
  \/ \E o \in DOMAIN objs, T \in AttrTypes, attr_name \in AttrNames :
       \E v \in AttrValues(T) : write_attr(o, T, attr_name, v)
  \/ \E o \in DOMAIN objs, T \in AttrTypes, attr_name \in AttrNames :
       \E held \in AttrValues(T) : attr(o, T, attr_name, held)

AttrSpec == Init /\ [][AttrNext]_vars

(* Datasets stored by write_dataset and by create_dataset, write_data and
   the destruction of the DataSet, under a File. *)
StoreNames == {"d", "e"}

StoreRequests ==
  {[b EXCEPT !.op = "write_data"] : b \in Vectors({1, 2}) \cup Matrices}

StoreDims == {<<1>>, <<2>>, <<1, 2>>, <<2, 2>>}

StoreNext ==
  \/ \E mpi \in BOOLEAN : objs = <<>> /\ File(mpi, "create")
  \/ \E name \in StoreNames, rq \in StoreRequests : write_dataset(1, "double", name, rq)
  \/ \E name \in StoreNames, dims \in StoreDims :
       Len(objs) = 1 /\ create_dataset(1, "double", name, dims)
  \/ \E rq \in StoreRequests : Write(2, rq)
  \/ Len(objs) = 2 /\ Destroy(2)

StoreSpec == Init /\ [][StoreNext]_vars

(* Files constructed in both modes, with and without MPI, and destroyed. *)
FileNext ==
  \/ \E mpi \in BOOLEAN, mode \in Modes : File(mpi, mode)
  \/ \E o \in DOMAIN objs : Destroy(o)

FileSpec == Init /\ [][FileNext]_vars

(* The type descriptors: DataSets of a native and of a complex type are
   constructed, copied and destroyed, attributes are written and read,
   and the resolver is called for types it knows and for one it does not. *)
TypeTypes == {"double", "std::complex<double>"}

TypeDims == <<1>>

TypeRequest == Request("write_data", "vector", <<1>>, 0, 0, <<>>, <<>>)

TypeValue(T) == IF T \in Complex THEN <<1, 2>> ELSE <<1>>

TypeNext ==
  \/ objs = <<>> /\ File(FALSE, "create")
  \/ \E T \in TypeTypes : create_dataset(1, T, "d", TypeDims)
  \/ \E o \in DOMAIN objs : IsDataSet(o) /\ Copy(o)
  \/ \E o \in DOMAIN objs : IsDataSet(o) /\ Destroy(o)
  \/ \E T \in TypeTypes : write_dataset(1, T, "e", TypeRequest)
  \/ \E T \in TypeTypes : write_attr(1, T, "a", TypeValue(T))
  \/ \E T \in TypeTypes : attr(1, T, "a", TypeValue(T))
  \/ \E T \in TypeTypes \cup {"bool"} : Resolve(T)

TypeSpec == Init /\ [][TypeNext]_vars

-----------------------------------------------------------------------------
(* Attribute and write operations on a file that another program wrote: the
   root group carries an integer flag, a text and a 1 x 2 matrix of doubles.
   The text is kept as its bytes. *)

ForeignAttrs ==
  [p \in {<<"flag">>, <<"text">>, <<"matrix">>} |->
     CASE p = <<"flag">> -> [type |-> <<"int">>, val |-> <<1>>, dims |-> <<>>]
       [] p = <<"text">> -> [type |-> <<"string">>, val |-> <<<<104, 105>>>>,
                             dims |-> <<>>]
       [] OTHER -> [type |-> <<"double">>, val |-> <<<<1>>, <<2>>>>,
                    dims |-> <<1, 2>>]]

ForeignFile == [EmptyFile EXCEPT !.attrs = ForeignAttrs]

ForeignNames == {"flag", "text", "matrix"}

ForeignTypes == {"int", "std::complex<float>"}

ForeignDims == <<2>>

ForeignRequests ==
  {Request("write_data", "vector", <<1, 2>>, 0, 0, <<>>, <<>>),
   Request("write_data_selection", "vector", <<>>, 0, 0, <<>>, <<>>),
   Request("write_data_hyperslab", "vector", <<2>>, 0, 0, <<1>>, <<1>>),
   Request("write_data_none", "vector", <<>>, 0, 0, <<>>, <<>>)}

ForeignInit ==
  /\ hid = <<>>
  /\ disk = ForeignFile
  /\ objs = <<>>
  /\ cells = <<>>
  /\ calls = <<>>
  /\ op = Ran("", 0, NoRequest)
  /\ fatal = FALSE
  /\ scoped = TRUE
  /\ proc = <<>>
  /\ pend = <<>>
  /\ value = <<>>
  /\ types = <<>>

ForeignNext ==
  \/ \E mpi \in BOOLEAN : objs = <<>> /\ File(mpi, "open")
  \/ Len(objs) = 1 /\ create_dataset(1, "double", "d", ForeignDims)
  \/ \E o \in DOMAIN objs, rq \in ForeignRequests : Write(o, rq)
  \/ \E o \in DOMAIN objs, T \in ForeignTypes :
       write_attr(o, T, "new", TypeValue(T))
  \/ \E o \in DOMAIN objs, T \in ForeignTypes,
        attr_name \in {"flag", "new"} :
       attr(o, T, attr_name, TypeValue(T))
  \/ \E o \in DOMAIN objs, attr_name \in ForeignNames :
       attr_bool(o, attr_name, 2)
  \/ \E o \in DOMAIN objs, attr_name \in ForeignNames :
       attr_string(o, attr_name)
  \/ \E o \in DOMAIN objs, attr_name \in ForeignNames :
       attr_matrix(o, attr_name, 0)

ForeignSpec == ForeignInit /\ [][ForeignNext]_vars

-----------------------------------------------------------------------------
(* Chains of wrappers under Files made with and without a communicator:
   File(name, mpi_communicator, mode) passes mpi = true, File(name, mode)
   passes false. *)

ChainDims == <<2>>

ChainRequests ==
  {Request("write_data", "vector", <<1, 2>>, 0, 0, <<>>, <<>>),
   Request("write_data_selection", "vector", <<1>>, 0, 0, <<1>>, <<>>),
   Request("write_data_hyperslab", "vector", <<2>>, 0, 0, <<1>>, <<1>>),
   Request("write_data_none", "vector", <<>>, 0, 0, <<>>, <<>>)}

ChainNext ==
  \/ \E mpi \in BOOLEAN : File(mpi, "create")
  \/ \E p \in DOMAIN objs, name \in GroupNames : group(p, name)
  \/ \E p \in DOMAIN objs, name \in GroupNames : create_group(p, name)
  \/ \E p \in DOMAIN objs, name \in DataSetNames :
       create_dataset(p, "double", name, ChainDims)
  \/ \E o \in DOMAIN objs : Copy(o)
  \/ \E o \in DOMAIN objs, rq \in ChainRequests : Write(o, rq)

ChainSpec == Init /\ [][ChainNext]_vars

-----------------------------------------------------------------------------
(* A run of NProcs processes that share a communicator.  Every process has
   constructed its File with mpi true and the same DataSet under it; in each
   round a process calls a write operation or calls none.  A collective
   H5Dwrite blocks its caller until every process of the communicator has
   made its call of the same round. *)

Procs == 1..NProcs

MpiDims == <<2>>

DataSetOf(p) == 2 * p

(* The state once every process has run File(name, mpi_communicator,
   Mode::create) and create_dataset: process p holds the identifiers
   3p-2 (file), 3p-1 (dataspace) and 3p (dataset). *)
MpiHandles ==
  [v \in 1..(3 * NProcs) |->
     CASE v % 3 = 1 -> Entry("file", <<>>, 0, 0)
       [] v % 3 = 2 -> [Entry("dataspace", <<>>, 0, 0) EXCEPT
                          !.dims = MpiDims, !.sel = AllOf(MpiDims)]
       [] OTHER     -> [Entry("dataset", <<"d">>, v - 2, v - 2) EXCEPT
                          !.dims = MpiDims]]

MpiCells ==
  [c \in 1..(3 * NProcs) |->
     CASE c % 3 = 1 -> NewCell("H5Fclose", c, "H5Fcreate")
       [] c % 3 = 2 -> NewCell("H5Dclose", c + 1, "H5Dcreate2")
       [] OTHER     -> NewCell("H5Sclose", c - 1, "H5Screate_simple")]

MpiObjs ==
  [o \in 1..(2 * NProcs) |->
     IF o % 2 = 1
     THEN HDF5Object("File", "f", TRUE, 3 * ((o + 1) \div 2) - 2, "create")
     ELSE [HDF5Object("DataSet", "d", TRUE, 3 * (o \div 2) - 1, "create") EXCEPT
             !.space = 3 * (o \div 2),
             !.rank = Len(MpiDims),
             !.dimensions = MpiDims,
             !.total_size = Product(MpiDims),
             !.T = "double",
             !.t_type = o \div 2]]

MpiTypes == [p \in Procs |-> NewCell("", H5T_NATIVE_DOUBLE, "predefined")]

MpiDisk ==
  [EmptyFile EXCEPT !.dsets =
     [q \in {<<"d">>} |->
        [dims |-> MpiDims, val |-> [i \in 1..Product(MpiDims) |-> 0]]]]

NoWrite == [rq |-> NoRequest, w |-> <<>>, ret |-> 0]

MpiInit ==
  /\ hid = MpiHandles
  /\ disk = MpiDisk
  /\ objs = MpiObjs
  /\ cells = MpiCells
  /\ calls = <<>>
  /\ op = Ran("", 0, NoRequest)
  /\ fatal = FALSE
  /\ scoped = TRUE
  /\ proc = [p \in Procs |-> [round |-> 1, at |-> "idle", hist |-> <<>>]]
  /\ pend = [p \in Procs |-> NoWrite]
  /\ value = <<>>
  /\ types = MpiTypes

(* Whether the H5Dwrite that was issued is collective: its transfer property
   list was set to H5FD_MPIO_COLLECTIVE. *)
IsCollective(w) ==
  \E i \in DOMAIN w.pre :
    /\ w.pre[i].fn = "H5Pset_dxpl_mpio"
    /\ w.pre[i].h = w.plist
    /\ w.pre[i].mode = "H5FD_MPIO_COLLECTIVE"

(* Every process of the communicator is blocked in a collective H5Dwrite of
   round r. *)
AllEntered(P, W, r) ==
  \A p \in Procs :
    /\ P[p].at = "blocked"
    /\ P[p].round = r
    /\ IsCollective(W[p].w)

(* What the blocked writes W of the processes ps transfer, one after
   another. *)
RECURSIVE Transferred(_, _, _, _)
Transferred(H, D, W, ps) ==
  IF ps = {} THEN [disk |-> D, ret |-> [p \in {} |-> 0]]
  ELSE LET p == CHOOSE q \in ps : \A t \in ps : q <= t
           w == W[p].w
           r == H5Dwrite(H, D, w.dset, w.memN, w.file, w.buf)
           s == Transferred(H, r.disk, W, ps \ {p})
       IN  [disk |-> s.disk,
            ret  |-> [q \in ps |-> IF q = p THEN r.ret ELSE s.ret[q]]]

(* Process p calls a write operation of its DataSet and runs it up to the
   H5Dwrite, where it blocks.  When it is the last process of the
   communicator to enter the collective H5Dwrite of its round, the library
   transfers what the processes selected and every call is ready to return.
   An operation that makes no H5Dwrite returns at once. *)
Enter(p, rq) ==
  /\ ~fatal
  /\ proc[p].at = "idle"
  /\ proc[p].round <= MaxRounds
  /\ op' = Ran("Write", DataSetOf(p), rq)
  /\ IF ~Checked(DataSetOf(p), rq)
     THEN /\ fatal' = TRUE
          /\ calls' = <<>>
          /\ UNCHANGED <<hid, disk, proc, pend>>
     ELSE LET w  == Issue(DataSetOf(p), rq)
              P1 == [proc EXCEPT ![p].at = "blocked", ![p].hist = Append(@, rq.op)]
              W1 == [pend EXCEPT ![p] = [rq |-> rq, w |-> w, ret |-> 0]]
              t  == Transferred(w.hid, disk, W1, Procs)
          IN  /\ hid' = w.hid
              /\ fatal' = FALSE
              /\ IF ~ReachesWrite(rq)
                 THEN /\ calls' = w.pre \o w.post
                      /\ proc' = [proc EXCEPT ![p].round = @ + 1,
                                              ![p].hist = Append(@, rq.op)]
                      /\ UNCHANGED <<disk, pend>>
                 ELSE /\ calls' = w.pre
                      /\ IF AllEntered(P1, W1, proc[p].round)
                         THEN /\ disk' = t.disk
                              /\ pend' = [q \in Procs |-> [W1[q] EXCEPT !.ret = t.ret[q]]]
                              /\ proc' = [q \in Procs |-> [P1[q] EXCEPT !.at = "returning"]]
                         ELSE /\ disk' = disk
                              /\ pend' = W1
                              /\ proc' = P1
  /\ UNCHANGED <<objs, cells, scoped, value, types>>

(* Process p calls no write operation in its round. *)
Skip(p) ==
  /\ ~fatal
  /\ proc[p].at = "idle"
  /\ proc[p].round <= MaxRounds
  /\ proc' = [proc EXCEPT ![p].round = @ + 1, ![p].hist = Append(@, "")]
  /\ UNCHANGED <<hid, disk, objs, cells, calls, op, fatal, scoped, pend, value, types>>

(* The H5Dwrite of process p returns and the operation runs to its end.  An
   H5Dwrite that is not collective waits for no other process. *)
Return(p) ==
  /\ proc[p].at \in {"blocked", "returning"}
  /\ LET w == pend[p].w
         r == IF IsCollective(w) THEN [ret |-> pend[p].ret, disk |-> disk]
              ELSE H5Dwrite(hid, disk, w.dset, w.memN, w.file, w.buf)
     IN  /\ IsCollective(w) => proc[p].at = "returning"
         /\ disk' = r.disk
         /\ calls' = <<WriteCall(w, r.ret)>> \o w.post
  /\ proc' = [proc EXCEPT ![p].round = @ + 1, ![p].at = "idle"]
  /\ op' = Ran("Return", DataSetOf(p), pend[p].rq)
  /\ pend' = [pend EXCEPT ![p] = NoWrite]
  /\ UNCHANGED <<hid, objs, cells, fatal, scoped, value, types>>

(* The elements process p has to write. *)
Data(p) == Iota(Product(MpiDims), 10 * p)

MpiRequests(p) ==
  {Request("write_data", "vector", Data(p), 0, 0, <<>>, <<>>),
   Request("write_data_none", "vector", <<>>, 0, 0, <<>>, <<>>)}

MpiNext ==
  \/ \E p \in Procs : \E rq \in MpiRequests(p) : Enter(p, rq)
  \/ \E p \in Procs : Skip(p)
  \/ \E p \in Procs : Return(p)

(* An H5Dwrite that can return does return; whether a process makes its
   next call is up to the caller. *)
MpiSpec == MpiInit /\ [][MpiNext]_vars /\ WF_vars(\E p \in Procs : Return(p))

-----------------------------------------------------------------------------
(* Properties of the handles the wrappers own *)

(* The kind of identifier a native open or create call returns. *)
ProducedKind(prod) ==
  CASE prod \in {"H5Fcreate", "H5Fopen"} -> "file"
    [] prod \in {"H5Gcreate2", "H5Gopen2"} -> "group"
    [] prod \in {"H5Dcreate2", "H5Dopen2"} -> "dataset"
    [] prod \in {"H5Screate_simple", "H5Dget_space"} -> "dataspace"
    [] OTHER -> "none"

DeletedNow(c) == cells[c].cnt > 0 /\ cells'[c].cnt = 0

Closes(v) == IsOpen(hid, v) /\ ~IsOpen(hid', v)

Held(C, v) == \E c \in DOMAIN C : C[c].cnt > 0 /\ C[c].val = v

CloseCalls == {"H5Fclose", "H5Gclose", "H5Dclose", "H5Sclose"}

(* C1: every native handle a wrapper obtained is closed exactly once, when
   the last wrapper sharing it is destroyed: a deleter runs only on a value
   that a native call returned, it finds the handle open and leaves it
   closed, and a handle is open exactly as long as some wrapper holds it. *)
C1_EachHandleClosedExactlyOnce ==
  [][ /\ \A c \in DOMAIN cells : DeletedNow(c) =>
           /\ cells[c].prod # "none"
           /\ cells[c].val # Invalid =>
                IsOpen(hid, cells[c].val) /\ ~IsOpen(hid', cells[c].val)
      /\ \A v \in 1..Len(hid') : hid'[v].open => Held(cells', v)
      /\ \A c \in DOMAIN cells' :
           (cells'[c].cnt > 0 /\ cells'[c].prod # "none"
              /\ cells'[c].val # Invalid) => IsOpen(hid', cells'[c].val)
    ]_vars

(* C2: a DataSet constructed in open mode holds an open dataset handle that a
   dataset-open call returned, and an open dataspace handle derived from
   that dataset. *)
C2_OpenModeHoldsDatasetAndDataspace ==
  \A o \in DOMAIN objs :
    (objs[o].alive /\ objs[o].cls = "DataSet" /\ objs[o].mode = "open") =>
      /\ ProducedKind(cells[objs[o].ref].prod) = "dataset"
      /\ IsKind(hid, Ref(o), "dataset")
      /\ cells[objs[o].space].prod = "H5Dget_space"
      /\ IsKind(hid, Space(o), "dataspace")

(* C3: the deleter bound to each pointer is the close call of the kind of
   handle that the native call whose result it holds returns, and no native
   call other than a close is given a handle that has been closed. *)
C3_DisposalMatchesKind ==
  /\ \A c \in DOMAIN cells : cells[c].cnt > 0 =>
       ProducedKind(cells[c].prod) = CloseKind(cells[c].del)
  /\ \A i \in DOMAIN calls : calls[i].fn \notin CloseCalls =>
       \A v \in {calls[i].h, calls[i].file} :
         v \in 1..Len(hid) => hid[v].open

(* The order of the closes that one destructor makes. *)
Closed(cs, i, fn) == cs[i].fn = fn /\ cs[i].ret = 0

DatasetFirst(cs) ==
  \A i, j \in DOMAIN cs :
    (Closed(cs, i, "H5Dclose") /\ Closed(cs, j, "H5Sclose")) => i < j

DataspaceFirst(cs) ==
  \A i, j \in DOMAIN cs :
    (Closed(cs, i, "H5Dclose") /\ Closed(cs, j, "H5Sclose")) => j < i

SelectCalls == {"H5Sselect_elements", "H5Sselect_hyperslab", "H5Sselect_none"}

(* C4: the destructor of a DataSet releases the dataset handle first and the
   dataspace handle second, and at every write that uses the DataSet's
   dataspace the dataspace is open. *)
C4_DatasetThenDataspace ==
  /\ DatasetFirst(calls)
  /\ \A i \in DOMAIN calls :
       /\ calls[i].fn \in SelectCalls => IsKind(hid, calls[i].h, "dataspace")
       /\ (calls[i].fn = "H5Dwrite" /\ calls[i].file # H5S_ALL) =>
            IsKind(hid, calls[i].file, "dataspace")

ParentOpenAtClose ==
  \A v \in 1..Len(hid) :
    (Closes(v) /\ hid[v].kind \in {"dataset", "group"}) =>
      IsOpen(hid', hid[v].parent)

(* C5 as claimed: handles are released in the order dataspace, dataset,
   parent group, file: a destructor closes the dataspace before the dataset,
   and a dataset or group handle is closed while the handle it was created
   or opened under is still open. *)
C5_DependencyChainOrder ==
  [][DataspaceFirst(calls') /\ ParentOpenAtClose]_vars

(* C5 as amended: a destructor closes the dataset before the dataspace, and
   as long as wrappers are destroyed in reverse order of construction a
   dataset or group handle is closed while the handle it was created or
   opened under is still open. *)
C5_DatasetFirstAndScopedChain ==
  [][DatasetFirst(calls') /\ (scoped' => ParentOpenAtClose)]_vars

C5_Witness ==
  /\ scoped
  /\ Len(calls) = 2
  /\ calls[1].fn = "H5Dclose" /\ calls[1].ret = 0
  /\ calls[2].fn = "H5Sclose" /\ calls[2].ret = 0
  /\ \E v \in 1..Len(hid) : IsKind(hid, v, "group")

(* A live Group or DataSet holds an open handle under the file handle f. *)
HoldsDescendant(O, C, H, f) ==
  \E o \in DOMAIN O :
    /\ O[o].alive
    /\ O[o].cls \in {"Group", "DataSet"}
    /\ IsOpen(H, C[O[o].ref].val)
    /\ H[C[O[o].ref].val].root = f

FileClosedLast ==
  \A f \in 1..Len(hid) :
    (Closes(f) /\ hid[f].kind = "file") =>
      ~HoldsDescendant(objs', cells', hid', f)

(* C6 as claimed: whatever the order of constructions and destructions, the
   close of a file handle is never invoked while a Group or DataSet created
   from that File holds an open handle. *)
C6_FileClosedLast == [][FileClosedLast]_vars

(* C6 as amended: that holds as long as wrappers are destroyed in reverse
   order of construction. *)
C6_FileClosedLastWhenScoped == [][scoped' => FileClosedLast]_vars

C6_Witness ==
  /\ scoped
  /\ \E i \in DOMAIN calls : calls[i].fn = "H5Fclose" /\ calls[i].ret = 0
  /\ \E v \in 1..Len(hid) : hid[v].kind = "group" /\ ~hid[v].open

-----------------------------------------------------------------------------
(* Properties of the write operations *)

Where(cs, fn) == {i \in DOMAIN cs : cs[i].fn = fn}

Only(S) == CHOOSE i \in S : TRUE

(* C7: every write operation that passes its check makes one H5Dwrite; when
   the DataSet's mpi is true it creates exactly one transfer property list,
   sets it to H5FD_MPIO_COLLECTIVE, passes it to the H5Dwrite and closes it
   exactly once after the H5Dwrite, whatever that returned; when mpi is false
   it creates and closes no property list and passes H5P_DEFAULT. *)
C7_TransferListPerWrite ==
  (op.name = "Write" /\ ~fatal) =>
    /\ Cardinality(Where(calls, "H5Dwrite")) = 1
    /\ LET w == Only(Where(calls, "H5Dwrite"))
       IN  IF objs[op.o].mpi
           THEN /\ Cardinality(Where(calls, "H5Pcreate")) = 1
                /\ Cardinality(Where(calls, "H5Pset_dxpl_mpio")) = 1
                /\ Cardinality(Where(calls, "H5Pclose")) = 1
                /\ LET c == Only(Where(calls, "H5Pcreate"))
                       m == Only(Where(calls, "H5Pset_dxpl_mpio"))
                       x == Only(Where(calls, "H5Pclose"))
                   IN  /\ c < m /\ m < w /\ w < x
                       /\ calls[m].h = calls[c].ret
                       /\ calls[m].mode = "H5FD_MPIO_COLLECTIVE"
                       /\ calls[w].plist = calls[c].ret
                       /\ calls[x].h = calls[c].ret
           ELSE /\ Where(calls, "H5Pcreate") = {}
                /\ Where(calls, "H5Pset_dxpl_mpio") = {}
                /\ Where(calls, "H5Pclose") = {}
                /\ calls[w].plist = H5P_DEFAULT

(* A hyperslab write of a DataSet with mpi true has closed its transfer
   property list after an H5Dwrite that failed. *)
C7_Witness ==
  /\ op.name = "Write" /\ ~fatal
  /\ objs[op.o].mpi
  /\ op.rq.op = "write_data_hyperslab"
  /\ \E i \in Where(calls, "H5Dwrite") : calls[i].ret = Invalid
  /\ Where(calls, "H5Pclose") # {}

Content(D) == D.dsets[<<"d">>].val

(* C8: a write_data call, vector or matrix, whose element count differs from
   the product of the DataSet's dimensions stops in the failed assertion
   having made no native call (no H5Pcreate, no H5Dwrite) and leaves the
   file's content and the library's handles as they were. *)
C8_MismatchStopsBeforeAnyCall ==
  [][(/\ op'.name = "Write"
      /\ op'.rq.op = "write_data"
      /\ Size(op'.rq) # Product(objs[op'.o].dimensions))
       => (fatal' /\ calls' = <<>> /\ disk' = disk /\ hid' = hid)]_vars

(* A matrix of the wrong size was refused after an earlier write had filled
   the dataset. *)
C8_Witness ==
  /\ fatal
  /\ op.name = "Write" /\ op.rq.op = "write_data" /\ op.rq.form = "matrix"
  /\ Size(op.rq) > objs[op.o].total_size
  /\ <<"d">> \in DOMAIN disk.dsets
  /\ \E i \in DOMAIN Content(disk) : Content(disk)[i] # 0

-----------------------------------------------------------------------------
(* Properties of a multi-process run *)

Did(p, r) == IF r \in DOMAIN proc[p].hist THEN proc[p].hist[r] ELSE "none yet"

(* In round r process w calls write_data and every other process calls
   write_data_none. *)
OneWriter(r, w) ==
  /\ Did(w, r) = "write_data"
  /\ \A p \in Procs \ {w} : Did(p, r) = "write_data_none"

ReturnedFrom(r) == \A p \in Procs : proc[p].round > r

(* C9: when in a round one process calls write_data with its elements and
   every other process calls write_data_none, every process's call
   eventually returns, and when the last has returned the dataset holds
   exactly the writer's elements. *)
C9_EmptyWritersLetTheWriteComplete ==
  \A r \in 1..MaxRounds :
    ((\E w \in Procs : OneWriter(r, w)) /\ ~ReturnedFrom(r))
      ~> (ReturnedFrom(r) /\ \E w \in Procs : OneWriter(r, w) /\ Content(disk) = Data(w))

(* Every process is back from a first round of one writer and empty writers,
   and the dataset holds the writer's elements. *)
C9_Witness ==
  /\ \E w \in Procs : OneWriter(1, w) /\ Content(disk) = Data(w)
  /\ \A p \in Procs : proc[p].round = 2 /\ proc[p].at = "idle"

(* C10: when a process makes no write call in a round in which another
   process calls a write operation, that other process stays blocked in its
   H5Dwrite: it never returns from the call. *)
C10_SkippedRoundBlocksCallers ==
  \A r \in 1..MaxRounds : \A p, q \in Procs :
    (Did(q, r) = "" /\ Did(p, r) \in {"write_data", "write_data_none"})
      => (proc[p].round = r /\ proc[p].at = "blocked")

(* A process has gone through all its rounds without a call while another
   is blocked in the write of the first round. *)
C10_Witness ==
  \E p, q \in Procs :
    /\ proc[q].round > MaxRounds
    /\ \A r \in 1..MaxRounds : Did(q, r) = ""
    /\ Did(p, 1) = "write_data"
    /\ proc[p].round = 1 /\ proc[p].at = "blocked"

-----------------------------------------------------------------------------
(* Properties of the partial writes *)

(* The step is the write operation name of some DataSet whose dataset is in
   the file with the dimensions the DataSet was given. *)
Wrote(name) ==
  /\ op'.name = "Write"
  /\ op'.rq.op = name
  /\ <<objs[op'.o].name>> \in DOMAIN disk.dsets
  /\ disk.dsets[<<objs[op'.o].name>>].dims = objs[op'.o].dimensions

Refused == fatal' /\ calls' = <<>> /\ disk' = disk /\ hid' = hid

(* The i-th coordinate of a flat coordinate list, as a cell of the dataset. *)
Coordinate(rq, o, i) == Position(Chunk(rq.x, i, objs[o].rank), objs[o].dimensions)

Distinct(rq, o) ==
  \A i, j \in DOMAIN rq.data :
    Coordinate(rq, o, i) = Coordinate(rq, o, j) => i = j

(* C11: write_data_selection with k values and k distinct coordinates inside
   the dataset leaves the i-th value at the i-th coordinate, for every i,
   and every other cell of the dataset at its prior value; when the
   coordinate list is not k * rank long the call stops in the failed
   assertion and changes nothing. *)
C11_SelectionWritesItsPoints ==
  [][Wrote("write_data_selection") =>
       LET rq == op'.rq
           o  == op'.o
       IN  IF Len(rq.x) # Len(rq.data) * objs[o].rank
           THEN Refused
           ELSE Distinct(rq, o) =>
                  /\ \A i \in DOMAIN rq.data :
                       Content(disk')[Coordinate(rq, o, i)] = rq.data[i]
                  /\ \A c \in DOMAIN Content(disk) :
                       (\A i \in DOMAIN rq.data : Coordinate(rq, o, i) # c)
                         => Content(disk')[c] = Content(disk)[c]
    ]_vars

(* The same for the DataSets that were constructed with Mode::create. *)
SelectionWritesItsPointsWhenCreated ==
  [][(Wrote("write_data_selection") /\ objs[op'.o].mode = "create") =>
       LET rq == op'.rq
           o  == op'.o
       IN  IF Len(rq.x) # Len(rq.data) * objs[o].rank
           THEN Refused
           ELSE Distinct(rq, o) =>
                  /\ \A i \in DOMAIN rq.data :
                       Content(disk')[Coordinate(rq, o, i)] = rq.data[i]
                  /\ \A c \in DOMAIN Content(disk) :
                       (\A i \in DOMAIN rq.data : Coordinate(rq, o, i) # c)
                         => Content(disk')[c] = Content(disk)[c]
    ]_vars

(* The product of the entries of count, all positive, is n. *)
RECURSIVE IsProduct(_, _)
IsProduct(count, n) ==
  IF count = <<>> THEN n = 1
  ELSE n % Head(count) = 0 /\ IsProduct(Tail(count), n \div Head(count))

InBlock(c, offset, count) ==
  \A a \in DOMAIN c : offset[a] <= c[a] /\ c[a] <= offset[a] + count[a] - 1

(* What a hyperslab write that fits must leave in the dataset: the cell c of
   the block holds the element of the buffer at the row-major position of
   c - offset in an array of extents count; the other cells are as before. *)
SlabWritten(rq, o) ==
  \A c \in Cells(objs[o].dimensions) :
    Content(disk')[Linear(c, objs[o].dimensions)] =
      IF InBlock(c, rq.x, rq.count)
      THEN rq.data[Linear([a \in DOMAIN c |-> c[a] - rq.x[a]], rq.count)]
      ELSE Content(disk)[Linear(c, objs[o].dimensions)]

Fits(rq, o) ==
  /\ IsProduct(rq.count, Size(rq))
  /\ Inside(rq.x, rq.count, objs[o].dimensions)

(* C12: write_data_hyperslab, vector or matrix, with offset and count inside
   the dataset updates exactly the cells whose index on every axis a lies in
   offset[a] .. offset[a] + count[a] - 1, filling them from the buffer in
   row-major order, and leaves every other cell unchanged. *)
C12_HyperslabWritesItsBlock ==
  [][(Wrote("write_data_hyperslab") /\ Fits(op'.rq, op'.o))
       => SlabWritten(op'.rq, op'.o)]_vars

(* The same for the DataSets that were constructed with Mode::create. *)
HyperslabWritesItsBlockWhenCreated ==
  [][(/\ Wrote("write_data_hyperslab")
      /\ objs[op'.o].mode = "create"
      /\ Fits(op'.rq, op'.o))
       => SlabWritten(op'.rq, op'.o)]_vars

(* A block of one row and two columns was written into the second row. *)
SlabSeen ==
  /\ op.name = "Write" /\ op.rq.op = "write_data_hyperslab"
  /\ op.rq.x = <<1, 0>> /\ op.rq.count = <<1, 2>>
  /\ ~fatal
  /\ Content(disk)[3] = 1 /\ Content(disk)[4] = 2

(* C13: write_data_hyperslab makes its H5Dwrite exactly when the number of
   elements of the buffer is the mathematical product of the entries of
   count; for any other count, one whose product is beyond 32 bits included,
   it stops in the failed assertion and writes nothing. *)
C13_HyperslabChecksExactProduct ==
  [][(op'.name = "Write" /\ op'.rq.op = "write_data_hyperslab") =>
       IF IsProduct(op'.rq.count, Size(op'.rq))
       THEN ~fatal' /\ Where(calls', "H5Dwrite") # {}
       ELSE Refused /\ Where(calls', "H5Dwrite") = {}]_vars

(* The same for the counts whose product is below 2^31. *)
HyperslabChecksSmallProduct ==
  [][(/\ op'.name = "Write" /\ op'.rq.op = "write_data_hyperslab"
      /\ op'.rq.count # WideCount) =>
       IF IsProduct(op'.rq.count, Size(op'.rq))
       THEN ~fatal' /\ Where(calls', "H5Dwrite") # {}
       ELSE Refused /\ Where(calls', "H5Dwrite") = {}]_vars

-----------------------------------------------------------------------------
(* Properties of the attributes *)

(* The step is attr<T>(attr_name) right after write_attr<T>(attr_name, v) on
   the same object. *)
ReadsBack ==
  /\ op.name = "write_attr"
  /\ op'.name = "attr"
  /\ op'.o = op.o
  /\ op'.rq.T = op.rq.T
  /\ op'.rq.attr_name = op.rq.attr_name

(* C14: write_attr(name, v) followed by attr<T>(name) on the same object
   returns v, whatever the object held before, an attribute of that name
   with another value included. *)
C14_WriteThenReadReturnsValue ==
  [][ReadsBack => value' = op.rq.value]_vars

(* The same when the write_attr created the attribute. *)
Created == \E i \in DOMAIN calls : calls[i].fn = "H5Acreate2" /\ calls[i].ret # Invalid

WriteThenReadReturnsValueWhenCreated ==
  [][ReadsBack /\ Created => value' = op.rq.value]_vars

(* The same when the object's identifier is that of an open object: it is
   violated by a write_attr under a name the object has an attribute of. *)
WriteThenReadReturnsValueOfOpenObject ==
  [][ReadsBack /\ IsObject(hid, Ref(op.o)) => value' = op.rq.value]_vars

-----------------------------------------------------------------------------
(* Properties of group and create_group *)

(* After a step of Group::Group: the native call it made, the path of the
   child it named under the parent's identifier, and whether the parent's
   identifier is a place in the file where that child is not yet linked. *)
GroupCall == calls'[1]

Child == Append(hid[GroupCall.h].path, objs'[op'.o].name)

Fresh == IsLoc(hid, GroupCall.h) /\ ~Linked(disk, Child)

Missing == ~IsLoc(hid, GroupCall.h) \/ Child \notin disk.groups

(* The identifier the wrapper that was constructed holds. *)
Obtained == cells'[objs'[op'.o].ref].val

(* C15: group(name) creates nothing, and obtains no group when there is no
   child group of that name; create_group(name) obtains no group and leaves
   the file as it is when the name is linked already; create_group with a
   fresh name adds that one child and nothing else. *)
C15_GroupOpensAndCreateGroupAddsOne ==
  [][op'.name = "Group" =>
       IF objs'[op'.o].mode = "open"
       THEN /\ GroupCall.fn = "H5Gopen2"
            /\ disk' = disk
            /\ Missing => Obtained = Invalid
       ELSE /\ GroupCall.fn = "H5Gcreate2"
            /\ IF Fresh
               THEN /\ disk' = [disk EXCEPT !.groups = @ \cup {Child}]
                    /\ Child \notin disk.groups
                    /\ IsKind(hid', Obtained, "group")
               ELSE /\ disk' = disk
                    /\ Obtained = Invalid]_vars

(* create_group has been called with the name of a child that exists, and
   group with a name under which the parent has no child. *)
C15_Witness ==
  /\ op.name = "Group"
  /\ calls[1].ret = Invalid
  /\ IsLoc(hid, calls[1].h)
  /\ \/ objs[op.o].mode = "create" /\ disk.groups # {}
     \/ objs[op.o].mode = "open" /\ Append(hid[calls[1].h].path, objs[op.o].name) \notin disk.groups

-----------------------------------------------------------------------------
(* Properties of the failures of the native library *)

(* The native calls that open, create or look up, and those that read,
   write or close what was obtained. *)
Obtaining ==
  {"H5Fcreate", "H5Fopen", "H5Gcreate2", "H5Gopen2", "H5Dcreate2", "H5Aopen"}

Using ==
  {"H5Dwrite", "H5Awrite", "H5Aread", "H5Fclose", "H5Gclose", "H5Dclose",
   "H5Aclose"}

(* C16: when a native call that opens or creates a file, a group or a
   dataset, or that looks up an attribute, returns a negative identifier,
   the operation ends in the fatal state; no live wrapper holds a negative
   identifier, and no read, write or close is made on one. *)
C16_InvalidHandleIsFatal ==
  [][/\ (\E i \in DOMAIN calls' :
          calls'[i].fn \in Obtaining /\ calls'[i].ret = Invalid) => fatal'
     /\ \A o \in DOMAIN objs' :
          objs'[o].alive => cells'[objs'[o].ref].val # Invalid
     /\ \A i \in DOMAIN calls' :
          calls'[i].fn \in Using => calls'[i].h # Invalid]_vars

-----------------------------------------------------------------------------
(* Properties of write_dataset *)

(* The dimensions write_dataset derives from its data. *)
DimsOf(rq) == IF rq.form = "matrix" THEN <<rq.m, rq.n>> ELSE <<Len(rq.data)>>

(* The file D with a dataset of the given shape and content at path. *)
Stored(D, path, dims, data) ==
  [D EXCEPT !.dsets =
     [q \in DOMAIN @ \cup {path} |->
        IF q = path THEN [dims |-> dims, val |-> data] ELSE @[q]]]

(* Every identifier a native call of cs returned is closed by a later call
   of cs. *)
AllClosed(cs) ==
  \A i \in DOMAIN cs :
    (cs[i].fn \in {"H5Screate_simple", "H5Dcreate2"} /\ cs[i].ret # Invalid)
      => \E j \in DOMAIN cs :
           /\ j > i
           /\ cs[j].fn \in {"H5Sclose", "H5Dclose"}
           /\ cs[j].h = cs[i].ret
           /\ cs[j].ret = 0

(* The step is write_data(data) on the DataSet that create_dataset has just
   constructed with the dimensions of data. *)
Manual ==
  /\ op.name = "DataSet"
  /\ objs[op.o].mode = "create"
  /\ op'.name = "Write"
  /\ op'.o = op.o
  /\ op'.rq.op = "write_data"
  /\ objs[op.o].dimensions = DimsOf(op'.rq)

(* C17: write_dataset(name, data) leaves the file as create_dataset(name,
   dims) followed by write_data(data) does, with dims the length of a flat
   sequence or the rows and columns of a matrix: the dataset has that shape
   and the content of data; the size check of write_data does not fail; and
   the identifiers of the temporary dataset and dataspace are closed when
   write_dataset returns. *)
C17_WriteDatasetIsCreateThenWrite ==
  [][/\ op'.name = "write_dataset" =>
          LET loc  == Ref(op'.o)
              path == Append(hid[loc].path, op'.rq.x[1])
          IN  /\ ~fatal'
              /\ disk' = IF IsLoc(hid, loc) /\ ~Linked(disk, path)
                         THEN Stored(disk, path, DimsOf(op'.rq), op'.rq.data)
                         ELSE disk
              /\ AllClosed(calls')
              /\ \A v \in DOMAIN hid' : hid'[v].open => IsOpen(hid, v)
     /\ Manual =>
          /\ ~fatal'
          /\ disk' = IF IsKind(hid, Ref(op.o), "dataset")
                     THEN Stored(disk, hid[Ref(op.o)].path, DimsOf(op'.rq),
                                 op'.rq.data)
                     ELSE disk]_vars

(* write_dataset has stored a matrix under a name that was not linked. *)
C17_Witness ==
  /\ op.name = "write_dataset"
  /\ op.rq.form = "matrix"
  /\ <<op.rq.x[1]>> \in DOMAIN disk.dsets
  /\ disk.dsets[<<op.rq.x[1]>>] = [dims |-> <<op.rq.m, op.rq.n>>, val |-> op.rq.data]
  /\ \E i \in DOMAIN calls : calls[i].fn = "H5Dclose" /\ calls[i].ret = 0

-----------------------------------------------------------------------------
(* Properties of File::File *)

Opening == Where(calls, "H5Fcreate") \cup Where(calls, "H5Fopen")

(* C18: File::File with mpi true creates one file-access property list, sets
   it up for MPI, passes it to H5Fcreate or H5Fopen and closes it once, after
   that call and before the constructor returns, whatever the call returned;
   with mpi false it creates and closes no property list and passes
   H5P_DEFAULT.  The wrapper keeps the file's identifier and nothing else. *)
C18_AccessListPerConstruction ==
  op.name = "File" =>
    /\ Cardinality(Opening) = 1
    /\ calls[Only(Opening)].fn =
         (IF objs[op.o].mode = "create" THEN "H5Fcreate" ELSE "H5Fopen")
    /\ IF objs[op.o].mpi
       THEN /\ Cardinality(Where(calls, "H5Pcreate")) = 1
            /\ Cardinality(Where(calls, "H5Pset_fapl_mpio")) = 1
            /\ Cardinality(Where(calls, "H5Pclose")) = 1
            /\ LET c == Only(Where(calls, "H5Pcreate"))
                   m == Only(Where(calls, "H5Pset_fapl_mpio"))
                   f == Only(Opening)
                   x == Only(Where(calls, "H5Pclose"))
               IN  /\ c < m /\ m < f /\ f < x
                   /\ x = Len(calls)
                   /\ calls[m].h = calls[c].ret
                   /\ calls[f].plist = calls[c].ret
                   /\ calls[x].h = calls[c].ret
       ELSE /\ Len(calls) = 1
            /\ calls[1].plist = H5P_DEFAULT
    /\ Owned(op.o) = <<objs[op.o].ref>>
    /\ cells[objs[op.o].ref].val = calls[Only(Opening)].ret
    /\ cells[objs[op.o].ref].del = "H5Fclose"

(* A File has been constructed with mpi true by an H5Fopen that failed. *)
C18_Witness ==
  /\ op.name = "File"
  /\ objs[op.o].mpi
  /\ \E i \in Where(calls, "H5Fopen") : calls[i].ret = Invalid
  /\ Where(calls, "H5Pclose") # {}

-----------------------------------------------------------------------------
(* Properties of the type descriptors *)

(* The type the operation that has just run resolved, "" when it resolved
   none. *)
Resolved ==
  CASE op'.name \in {"attr", "write_attr", "get_hdf5_datatype"} -> op'.rq.T
    [] op'.name = "write_dataset" -> op'.rq.x[2]
    [] op'.name = "DataSet" /\ ~fatal' -> objs'[op'.o].T
    [] OTHER -> ""

HeldType(C, v) == \E c \in DOMAIN C : C[c].cnt > 0 /\ C[c].val = v

(* C19: the descriptor of a native type carries no close action and no
   H5Tclose is made on a predefined type; resolving a complex type creates
   one compound type, which is closed once, by an H5Tclose that succeeds and
   that follows every call the type was passed to: at the end of the
   attribute operation or of write_dataset, or when the last DataSet sharing
   it is destroyed, and not while a DataSet holds it; any other type ends in
   the fatal state. *)
C19_DescriptorsClosedOnceWhenOwned ==
  [][/\ \A c \in DOMAIN types' :
          types'[c].cnt > 0 =>
            IF types'[c].val \in Predefined
            THEN types'[c].del = ""
            ELSE /\ types'[c].del = "H5Tclose"
                 /\ IsKind(hid', types'[c].val, "datatype")
     /\ \A v \in DOMAIN hid' :
          IsKind(hid', v, "datatype") => HeldType(types', v)
     /\ \A i \in Where(calls', "H5Tclose") :
          /\ calls'[i].ret = 0
          /\ calls'[i].h \notin Predefined
          /\ \A j \in DOMAIN calls' :
               (calls'[j].mem = calls'[i].h \/ calls'[j].h = calls'[i].h) => j <= i
     /\ Resolved \in Native => Where(calls', "H5Tcreate") = {} /\ ~fatal'
     /\ Resolved \in Complex =>
          /\ Cardinality(Where(calls', "H5Tcreate")) = 1
          /\ op'.name # "DataSet" =>
               /\ Cardinality(Where(calls', "H5Tclose")) = 1
               /\ calls'[Only(Where(calls', "H5Tclose"))].h =
                    calls'[Only(Where(calls', "H5Tcreate"))].ret
     /\ Resolved \notin Native \cup Complex \cup {""} => fatal'
     /\ \A c \in DOMAIN types :
          (types[c].cnt > 0 /\ types'[c].cnt = 0 /\ types[c].del = "H5Tclose")
            => \E i \in Where(calls', "H5Tclose") : calls'[i].h = types[c].val
     /\ \A c \in DOMAIN types :
          (types[c].cnt > 0 /\ types'[c].cnt > 0)
            => \A i \in Where(calls', "H5Tclose") : calls'[i].h # types[c].val
    ]_vars

(* The last of two DataSets sharing a compound type has been destroyed and
   the type closed. *)
C19_Witness ==
  /\ op.name = "Destroy"
  /\ \E c \in DOMAIN types : types[c] = Deleted
  /\ \E i \in Where(calls, "H5Tclose") : calls[i].ret = 0
  /\ \E o \in DOMAIN objs : o # op.o /\ ~objs[o].alive /\ o > 1

-----------------------------------------------------------------------------
(* Properties of the two dataspaces of a write *)

Partial == {"write_data_selection", "write_data_hyperslab", "write_data_none"}

(* The H5Dwrite at place i of cs, made in the library state H by a write of
   request rq, has a memory dataspace and a file selection of n elements. *)
Agree(H, cs, i, rq, n) ==
  /\ Product(MemoryDims(rq)) = n
  /\ IsKind(H, cs[i].file, "dataspace")
  /\ Len(H[cs[i].file].sel) = n

Expected(rq, n) ==
  CASE rq.op = "write_data_selection" -> n = Len(rq.data)
    [] rq.op = "write_data_hyperslab" -> IsProduct(rq.count, n)
    [] OTHER -> n = 0

(* C20: at every H5Dwrite of write_data_selection, write_data_hyperslab and
   write_data_none the memory dataspace describes as many elements as are
   selected in the DataSet's dataspace: k for a selection of k points, the
   product of count for a hyperslab, none for the empty write. *)
C20_MemoryAndFileSelectionsAgree ==
  [][(op'.name = "Write" /\ op'.rq.op \in Partial) =>
       \A i \in Where(calls', "H5Dwrite") :
         \E n \in 0..(MaxBlock + 1) :
           Agree(hid', calls', i, op'.rq, n) /\ Expected(op'.rq, n)]_vars

(* The same for a DataSet that create_dataset constructed, a selection of at
   least one point, and a count whose product is the length of the data. *)
MemoryAndFileSelectionsAgreeWhenCreated ==
  [][(/\ op'.name = "Write"
      /\ op'.rq.op \in Partial
      /\ objs[op'.o].mode = "create"
      /\ IsKind(hid, Ref(op'.o), "dataset")
      /\ op'.rq.op = "write_data_selection" => Len(op'.rq.data) > 0
      /\ op'.rq.op = "write_data_hyperslab" =>
           IsProduct(op'.rq.count, Size(op'.rq))) =>
       \A i \in Where(calls', "H5Dwrite") :
         \E n \in 0..(MaxBlock + 1) :
           Agree(hid', calls', i, op'.rq, n) /\ Expected(op'.rq, n)]_vars

-----------------------------------------------------------------------------
(* Properties of the selection a write leaves on the dataspace *)

(* The cells that a partial write of request rq asks for in a dataset of
   extents dims, as the library keeps a selection: the points of the
   coordinates, the cells of the block, or none. *)
OwnElements(rq, dims) ==
  CASE rq.op = "write_data_selection" ->
         [i \in 1..Len(rq.data) |->
            Position(Chunk(rq.x, i, Len(dims)), dims)]
    [] rq.op = "write_data_hyperslab" ->
         IF Inside(rq.x, rq.count, dims)
         THEN LET cs == Block(rq.x, rq.count)
              IN  [i \in 1..Len(cs) |-> Position(cs[i], dims)]
         ELSE [i \in 1..Extent(rq.count) |-> 0]
    [] OTHER -> <<>>

(* The write that has just run stored its whole buffer as the value of the
   dataset. *)
WroteWholeExtent ==
  /\ IsKind(hid', Ref(op'.o), "dataset")
  /\ hid'[Ref(op'.o)].path \in DOMAIN disk'.dsets
  /\ disk'.dsets[hid'[Ref(op'.o)].path].val = op'.rq.data
  /\ Len(op'.rq.data) = Product(objs[op'.o].dimensions)

(* The H5Dwrite of the write that has just run found exactly the elements of
   its own request selected in the dataspace of the DataSet. *)
SelectsOwnElements ==
  /\ IsKind(hid', Space(op'.o), "dataspace")
  /\ hid'[Space(op'.o)].sel = OwnElements(op'.rq, objs[op'.o].dimensions)

(* C21: whatever writes came before on the same DataSet, a write_data that
   is not refused writes the whole declared extent, and a selection,
   hyperslab or empty write has only its own elements selected at its
   H5Dwrite: the selection left by an earlier write is replaced. *)
C21_EarlierSelectionNeverAffectsAWrite ==
  [][(op'.name = "Write" /\ ~fatal') =>
       IF op'.rq.op = "write_data" THEN WroteWholeExtent
       ELSE SelectsOwnElements]_vars

(* The same for a DataSet that create_dataset constructed and a selection of
   at least one point. *)
EarlierSelectionNeverAffectsAWriteWhenCreated ==
  [][(/\ op'.name = "Write"
      /\ ~fatal'
      /\ objs[op'.o].mode = "create"
      /\ IsKind(hid, Ref(op'.o), "dataset")
      /\ op'.rq.op = "write_data_selection" => Len(op'.rq.data) > 0) =>
       IF op'.rq.op = "write_data" THEN WroteWholeExtent
       ELSE SelectsOwnElements]_vars

(* A write of no points that follows an empty write on the same DataSet: its
   H5Dwrite succeeds on the selection the empty write left, where on a
   dataspace that no write has touched it fails. *)
StaleSelectionDecidesTheWrite ==
  /\ op.name = "Write"
  /\ op.rq.op = "write_data_selection"
  /\ op.rq.data = <<>>
  /\ \E i \in Where(calls, "H5Dwrite") : calls[i].ret = 0

-----------------------------------------------------------------------------
(* Properties of the temporaries of the attribute and write operations *)

(* The native calls that make a temporary, and the call that closes it. *)
Closer(fn) ==
  CASE fn \in {"H5Aopen", "H5Acreate2"} -> "H5Aclose"
    [] fn \in {"H5Screate", "H5Screate_simple", "H5Aget_space"} -> "H5Sclose"
    [] fn \in {"H5Tcopy", "H5Tcreate"} -> "H5Tclose"
    [] fn = "H5Pcreate" -> "H5Pclose"
    [] OTHER -> ""

Closers == {"H5Aclose", "H5Sclose", "H5Tclose", "H5Pclose"}

(* Every temporary made in the calls cs is closed by exactly one later call
   of cs, which is the close of its kind and succeeds. *)
ClosedOnce(cs) ==
  \A i \in DOMAIN cs :
    (Closer(cs[i].fn) # "" /\ cs[i].ret # Invalid) =>
      /\ Cardinality({j \in DOMAIN cs : cs[j].fn \in Closers
                                         /\ cs[j].h = cs[i].ret}) = 1
      /\ \E j \in DOMAIN cs :
           /\ j > i
           /\ cs[j].fn = Closer(cs[i].fn)
           /\ cs[j].h = cs[i].ret
           /\ cs[j].ret = 0

OpenHandles(H) == {v \in 1..Len(H) : H[v].open}

(* The identifiers held by the wrappers that live. *)
HeldByWrappers(C, Y, O) ==
  {C[O[o].ref].val : o \in {q \in DOMAIN O : O[q].alive}}
    \cup {C[O[o].space].val :
            o \in {q \in DOMAIN O : O[q].alive /\ O[q].cls = "DataSet"}}
    \cup {Y[O[o].t_type].val :
            o \in {q \in DOMAIN O : O[q].alive /\ O[q].cls = "DataSet"}}

(* The open native identifiers of H are those the live wrappers hold. *)
OnlyWrappersHold(H, C, Y, O) ==
  OpenHandles(H) = HeldByWrappers(C, Y, O) \cap 1..Len(H)

(* C22: an attribute operation (attr for a number, a bool, a text or a
   matrix; write_attr) or a write operation that returns normally has closed
   every temporary it made exactly once and leaves the set of open native
   identifiers as it was: when only the live wrappers held open identifiers
   before the operation, only they do after it. *)
C22_TemporariesClosedOnce ==
  [][(op'.name \in {"attr", "write_attr", "Write"} /\ ~fatal') =>
       /\ ClosedOnce(calls')
       /\ OpenHandles(hid') = OpenHandles(hid)
       /\ OnlyWrappersHold(hid, cells, types, objs) =>
            OnlyWrappersHold(hid', cells', types', objs')]_vars

(* attr<std::string> has read the text of the foreign file and returned
   after closing its string type and its attribute. *)
C22_Witness ==
  /\ OnlyWrappersHold(hid, cells, types, objs)
  /\ OpenHandles(hid) # {}
  /\ op.name = "attr"
  /\ op.rq.T = "std::string"
  /\ ~fatal
  /\ value = <<<<104, 105>>>>
  /\ \E i, j \in DOMAIN calls :
       /\ i < j
       /\ calls[i].fn = "H5Tcopy" /\ calls[i].ret # Invalid
       /\ calls[j].fn = "H5Tclose" /\ calls[j].h = calls[i].ret
       /\ calls[j].ret = 0

-----------------------------------------------------------------------------
(* Properties of the mpi flag along a chain of wrappers *)

(* The File wrappers of objects O that hold the file of native object v. *)
FilesOf(H, C, O, v) ==
  {f \in DOMAIN O : /\ O[f].alive
                    /\ O[f].cls = "File"
                    /\ IsOpen(H, v)
                    /\ C[O[f].ref].val = Root(H, v)}

(* The wrapper that the step has just constructed has the flag of p. *)
Inherits(p) == objs'[Len(objs')].mpi = objs[p].mpi

(* The H5Dwrite in the calls cs is collective: its transfer list was set to
   H5FD_MPIO_COLLECTIVE; or independent: it has the default list. *)
Collective(cs) ==
  /\ \E i \in Where(cs, "H5Pset_dxpl_mpio") :
       cs[i].mode = "H5FD_MPIO_COLLECTIVE" /\ cs[i].h = TransferList
  /\ \A i \in Where(cs, "H5Dwrite") : cs[i].plist = TransferList

Independent(cs) ==
  /\ Where(cs, "H5Pset_dxpl_mpio") = {}
  /\ \A i \in Where(cs, "H5Dwrite") : cs[i].plist = H5P_DEFAULT

(* C23: a Group or DataSet made by group, create_group or create_dataset has
   the mpi flag of the object it was made from, hence of the File at the
   head of its chain; the flag of a live object never changes; and a write
   that returns is collective under a File made with a communicator and
   independent under a File made without one. *)
C23_MpiFlagInherited ==
  [][/\ \A p \in DOMAIN objs, name \in GroupNames :
          (group(p, name) \/ create_group(p, name)) => Inherits(p)
     /\ \A p \in DOMAIN objs, name \in DataSetNames :
          (create_dataset(p, "double", name, ChainDims) /\ ~fatal')
            => Inherits(p)
     /\ \A o \in DOMAIN objs :
          (objs[o].alive /\ objs'[o].alive) => objs'[o].mpi = objs[o].mpi
     /\ \A o \in DOMAIN objs' :
          objs'[o].alive =>
            \A f \in FilesOf(hid', cells', objs', cells'[objs'[o].ref].val) :
              objs'[o].mpi = objs'[f].mpi
     /\ (op'.name = "Write" /\ ~fatal') =>
          /\ Where(calls', "H5Dwrite") # {}
          /\ IF objs[op'.o].mpi THEN Collective(calls') ELSE Independent(calls')
          /\ \A f \in FilesOf(hid, cells, objs, Ref(op'.o)) :
               IF objs[f].mpi THEN Collective(calls') ELSE Independent(calls')]_vars

(* A DataSet in a Group of a File made with a communicator has been written
   collectively. *)
C23_Witness ==
  /\ op.name = "Write"
  /\ ~fatal
  /\ IsDataSet(op.o)
  /\ IsKind(hid, Ref(op.o), "dataset")
  /\ IsKind(hid, hid[Ref(op.o)].parent, "group")
  /\ \E f \in FilesOf(hid, cells, objs, Ref(op.o)) : objs[f].mpi
  /\ Collective(calls)
  /\ \E i \in Where(calls, "H5Dwrite") : calls[i].ret = 0

-----------------------------------------------------------------------------
(* Properties of the requests that leave the declared extent *)

(* The request fits a dataset of extents dims: offset and count have one
   entry for each axis and the block ends inside every axis; every
   coordinate of a selection is below the extent of its axis. *)
WithinExtent(rq, dims) ==
  IF rq.op = "write_data_hyperslab"
  THEN Inside(rq.x, rq.count, dims)
  ELSE /\ Len(rq.x) = Len(rq.data) * Len(dims)
       /\ \A i \in DOMAIN rq.data :
            Position(Chunk(rq.x, i, Len(dims)), dims) # 0

(* C24: write_data_hyperslab and write_data_selection issue an H5Dwrite only
   for a request that fits the dataset, and a request that leaves the
   declared extent is fatal before any selection or write call is made. *)
C24_RequestOutsideExtentIsRefused ==
  [][(/\ op'.name = "Write"
      /\ op'.rq.op \in {"write_data_hyperslab", "write_data_selection"}) =>
       IF WithinExtent(op'.rq, objs[op'.o].dimensions)
       THEN TRUE
       ELSE /\ Where(calls', "H5Dwrite") = {}
            /\ Where(calls', "H5Sselect_hyperslab") = {}
            /\ Where(calls', "H5Sselect_elements") = {}
            /\ fatal']_vars

(* A hyperslab whose count has the product of the buffer length but whose
   block ends beyond the extent has been selected and handed to H5Dwrite,
   which refused it. *)
BlockBeyondExtentReachesTheLibrary ==
  /\ op.name = "Write"
  /\ op.rq.op = "write_data_hyperslab"
  /\ objs[op.o].mode = "create"
  /\ IsProduct(op.rq.count, Size(op.rq))
  /\ ~Inside(op.rq.x, op.rq.count, objs[op.o].dimensions)
  /\ ~fatal
  /\ \E i \in Where(calls, "H5Sselect_hyperslab") : calls[i].ret = 0
  /\ \E i \in Where(calls, "H5Dwrite") : calls[i].ret = Invalid

====
